---- MODULE Spec2Model ----
(***************************************************************************)
(* Model of the indexing pipeline of nestjs-ai-agent-lib:                  *)
(*   FileRegistry (src/core/state/db.ts, second half),                     *)
(*   the Store schema (AgentDB.initSchema),                                *)
(*   NestChunker.analyze (core/tools/ast/chunker.ts),                      *)
(*   IndexerService (src/core/rag/indexer.ts),                             *)
(* and of the readers of the Store:                                        *)
(*   RetrieverService (src/core/rag/retriever.ts),                         *)
(*   queryDependencyGraphTool (src/core/tools/analysis-tools.ts).          *)
(*                                                                         *)
(* One indexProject run is a sequence of steps separated by the awaits of  *)
(* the code; the Store (file_registry, dependency_graph, code_chunks) and  *)
(* the file system persist between runs.                                    *)
(***************************************************************************)
EXTENDS Naturals, Integers, Sequences, FiniteSets, TLC

VARIABLES
    fs,              \* the source tree: path -> content (Absent when no such file)
    registry,        \* file_registry: path -> row or NoRow
    edges,           \* dependency_graph: set of rows
    chunks,          \* code_chunks: set of rows
    clock,           \* Date.now()
    nextId,          \* source of fresh chunk identifiers (uuidv4)
    pc,              \* position of the indexProject run
    filesToProcess,  \* indexProject: filesToProcess
    idx,             \* position of Pass A in filesToProcess
    pendingChunks,   \* indexProject: pendingChunks
    pendingEdges,    \* indexProject: pendingEdges
    batchStart,      \* embedAndSaveBatches: loop variable i (0-based)
    runs,            \* number of indexProject calls started so far
    edits,           \* number of modifications of the tree made by other writers
    snap,            \* the Store as it was when the current run started
    hist,            \* what the current run has done so far
    host,            \* path.sep of the platform the process runs on
    answer,          \* the last call of a tool or of the retriever, with its result
    instance,        \* AgentDB.instance: the connection, or Undefined
    dbLog,           \* what the getInstance calls of the process have done
    node,            \* the node of the agent graph that runs next
    lastMessage,     \* tool_calls of the last message of the agent state
    session_files,   \* session_files of the agent state
    run,             \* what the current run of the agent graph has done so far
    tasks,           \* the indexProject runs started by the tools, one record each
    messages,        \* messages of the agent state, as the command line drives it
    cli              \* position and history of the graph command of the CLI

vars == << fs, registry, edges, chunks, clock, nextId, pc, filesToProcess, idx,
           pendingChunks, pendingEdges, batchStart, runs, edits, snap, hist,
           host, answer, instance, dbLog, node, lastMessage, session_files,
           run, tasks, messages,
                    cli >>

(***************************************************************************)
(* Bounds of the model.                                                    *)
(***************************************************************************)
MaxRuns == 2
MaxEdits == 2

(***************************************************************************)
(* Program constants.                                                      *)
(***************************************************************************)
BATCH_SIZE == 10

(***************************************************************************)
(* The source tree.  Paths are relative to process.cwd().                  *)
(***************************************************************************)
SrcDir == "src"
Stems == {"src/a", "src/b", "src/c", "src/a.spec", "src/c.dto", "src/nope", "src/README"}
PathA == "src/a" \o ".ts"
PathB == "src/b" \o ".ts"
PathDto == "src/c" \o ".dto.ts"
PathSpec == "src/a" \o ".spec.ts"
PathDoc == "src/README" \o ".md"
AllPaths == {PathA, PathB, PathDto, PathSpec, PathDoc}
EditablePaths == {PathA, PathB, PathDto}
\* fs.readdirSync order of the directory walk
WalkOrder == << PathDoc, PathSpec, PathA, PathB, PathDto >>

Absent == "absent"
\* the versions of text a file of the tree can hold
Contents == {"v1", "v2", "bad"}

NoRow == [none |-> TRUE]
Null == "null"

\* path.sep: POSIX and Windows
Posix == "/"
Seps == { Posix, "\\" }
\* no tool or retriever call has been made
NoAnswer == [ op |-> "none" ]
\* the JavaScript value undefined
Undefined == [ undefined |-> TRUE ]
\* the n-th object that new Database(dbPath) has made in the process
Connection(n) == [ conn |-> n ]

\* String.prototype.endsWith, over the names of the tree
EndsWith(s, suffix) == \E stem \in Stems : s = stem \o suffix

\* String.prototype.startsWith('.') over the module specifiers of the tree
SpecifierRests == {"/a", "/b", "/nope", "/c.dto", "/x"}
StartsWithDot(s) == \E rest \in SpecifierRests : s = "." \o rest

\* what the tree holds at the path of a directory
Dir == "dir"
\* fs.existsSync
ExistsSync(tree, p) == p \in DOMAIN tree /\ tree[p] # Absent
\* fs.statSync(p).isFile() of an existing path
IsFile(tree, p) == tree[p] # Dir

\* crypto.createHash('md5').update(content).digest('hex'): a digest, injective
\* on the contents of the model
ComputeHash(content) == [md5 |-> content]

(***************************************************************************)
(* The texts of the tree.  A content is a version number; these tables say *)
(* what the text of that version holds.                                    *)
(***************************************************************************)
\* method count of each class declaration of the text, in order
ClassesOf(c) ==
    CASE c = "v1" -> << 1 >>
      [] c = "v2" -> << 10 >>
      [] c = "v3" -> << 2, 0, 1 >>
      [] c = "v4" -> << 1, 2 >>
      [] OTHER -> << >>

\* sourceFile.getEndLineNumber(): the number of lines of the text
LinesOf(c) ==
    CASE c = "v1" -> 12
      [] c = "v2" -> 80
      [] c = "v3" -> 30
      [] c = "v4" -> 25
      [] OTHER -> 1

\* module specifiers of the import declarations of the text, in order
ImportsOf(c) ==
    CASE c = "v1" -> << "./b", "lodash" >>
      [] c = "v2" -> << "./a", "./nope" >>
      [] OTHER -> << >>

\* texts on which NestChunker.analyze throws
AnalysisThrows(c) == c = "bad"

(***************************************************************************)
(* NestChunker                                                             *)
(***************************************************************************)
\* variant: the last suffix of the list is not looked at
IsAtomicFile_NoType(filePath) ==
    \/ EndsWith(filePath, ".dto.ts")
    \/ EndsWith(filePath, ".entity.ts")
    \/ EndsWith(filePath, ".interface.ts")
    \/ EndsWith(filePath, ".enum.ts")

IsAtomicFile(filePath) ==
    \/ EndsWith(filePath, ".dto.ts")
    \/ EndsWith(filePath, ".entity.ts")
    \/ EndsWith(filePath, ".interface.ts")
    \/ EndsWith(filePath, ".enum.ts")
    \/ EndsWith(filePath, ".type.ts")

\* path.join(sourceDir, importPath) for a relative specifier "./name"
JoinSpecifier(sourceDir, importPath) ==
    LET rest == CHOOSE r \in SpecifierRests : importPath = "." \o r
    IN  sourceDir \o rest

\* variant: the directory index is tried before the .ts file
ResolveModulePath_IndexFirst(tree, sourceDir, importPath) ==
    LET absoluteBase == JoinSpecifier(sourceDir, importPath)
        tsPath == absoluteBase \o ".ts"
        indexPath == absoluteBase \o "/index.ts"
    IN  IF ExistsSync(tree, absoluteBase) /\ IsFile(tree, absoluteBase)
        THEN absoluteBase
        ELSE IF ExistsSync(tree, indexPath) THEN indexPath
        ELSE IF ExistsSync(tree, tsPath) THEN tsPath
        ELSE Null

ResolveModulePath(tree, sourceDir, importPath) ==
    LET absoluteBase == JoinSpecifier(sourceDir, importPath)
        tsPath == absoluteBase \o ".ts"
        indexPath == absoluteBase \o "/index.ts"
    IN  IF ExistsSync(tree, absoluteBase) /\ IsFile(tree, absoluteBase)
        THEN absoluteBase
        ELSE IF ExistsSync(tree, tsPath) THEN tsPath
        ELSE IF ExistsSync(tree, indexPath) THEN indexPath
        ELSE Null

\* the loop of extractDependencies over the module specifiers of the file
ExtractDependenciesOf(tree, imports, sourcePath) ==
    LET kept == SelectSeq(imports,
                    LAMBDA m : /\ StartsWithDot(m)
                               /\ ResolveModulePath(tree, SrcDir, m) # Null)
    IN  [ i \in 1..Len(kept) |->
            [ sourcePath |-> sourcePath,
              targetPath |-> ResolveModulePath(tree, SrcDir, kept[i]),
              relation |-> "import" ] ]

ExtractDependencies(tree, content, sourcePath) ==
    ExtractDependenciesOf(tree, ImportsOf(content), sourcePath)

\* ProcessedChunk.parentId is optional
NoParent == 0

\* cls.getName() and method.getName() of the k-th class and the m-th method
Numerals == << "1", "2", "3", "4", "5", "6", "7", "8", "9", "10", "11" >>
ClassName(k) == "Class" \o Numerals[k]
MethodName(m) == "method" \o Numerals[m]

\* sourceFile.getFullText()
FullText(content) == << content, 0, 0 >>

ProcessAtomicFile(content, firstId) ==
    << [ id |-> firstId,
         type |-> "file",
         parentId |-> NoParent,
         content |-> FullText(content),
         metadata |-> [ startLine |-> 1,
                        endLine |-> LinesOf(content),
                        className |-> IF ClassesOf(content) = << >>
                                      THEN Null ELSE ClassName(1),
                        methodName |-> Null ] ] >>

\* number of chunks emitted for the classes before class k
RECURSIVE ClassOffset(_, _)
ClassOffset(classes, k) ==
    IF k <= 1 THEN 0 ELSE ClassOffset(classes, k - 1) + 1 + classes[k - 1]

\* variant: every method chunk is linked to the first class of the file
ProcessLogicFile_FirstParent(content, firstId) ==
    LET classes == ClassesOf(content)
        total == ClassOffset(classes, Len(classes) + 1)
        ClassAt(p) == CHOOSE k \in 1..Len(classes) :
                          /\ ClassOffset(classes, k) < p
                          /\ p <= ClassOffset(classes, k + 1)
    IN  [ p \in 1..total |->
            LET k == ClassAt(p)
                parentPos == ClassOffset(classes, k) + 1
            IN  IF p = parentPos
                THEN [ id |-> firstId + p - 1,
                       type |-> "class_signature",
                       parentId |-> NoParent,
                       content |-> << content, k, 0 >>,
                       metadata |-> [ className |-> ClassName(k),
                                      methodName |-> Null ] ]
                ELSE [ id |-> firstId + p - 1,
                       parentId |-> firstId,
                       type |-> "method",
                       content |-> << content, k, p - parentPos >>,
                       metadata |-> [ className |-> ClassName(k),
                                      methodName |-> MethodName(p - parentPos) ] ] ]

ProcessLogicFile(content, firstId) ==
    LET classes == ClassesOf(content)
        total == ClassOffset(classes, Len(classes) + 1)
        ClassAt(p) == CHOOSE k \in 1..Len(classes) :
                          /\ ClassOffset(classes, k) < p
                          /\ p <= ClassOffset(classes, k + 1)
    IN  [ p \in 1..total |->
            LET k == ClassAt(p)
                parentPos == ClassOffset(classes, k) + 1
            IN  IF p = parentPos
                THEN [ id |-> firstId + p - 1,
                       type |-> "class_signature",
                       parentId |-> NoParent,
                       content |-> << content, k, 0 >>,
                       metadata |-> [ className |-> ClassName(k),
                                      methodName |-> Null ] ]
                ELSE [ id |-> firstId + p - 1,
                       parentId |-> firstId + parentPos - 1,
                       type |-> "method",
                       content |-> << content, k, p - parentPos >>,
                       metadata |-> [ className |-> ClassName(k),
                                      methodName |-> MethodName(p - parentPos) ] ] ]

GenerateSkeleton(content) ==
    [ imports |-> ImportsOf(content), classes |-> ClassesOf(content) ]

Analyze(tree, filePath, content, firstId) ==
    [ filePath |-> filePath,
      fileHash |-> ComputeHash(content),
      chunks |-> IF IsAtomicFile(filePath)
                 THEN ProcessAtomicFile(content, firstId)
                 ELSE ProcessLogicFile(content, firstId),
      dependencies |-> ExtractDependencies(tree, content, filePath),
      skeleton |-> IF IsAtomicFile(filePath)
                   THEN [ type |-> "full" ]
                   ELSE GenerateSkeleton(content) ]

(***************************************************************************)
(* FileRegistry                                                            *)
(***************************************************************************)
\* variant: every file counts as changed
IsFileChanged_Always(tree, reg, filePath) == TRUE

\* variant: only the presence of a registry row is looked at
IsFileChanged_RowOnly(tree, reg, filePath) ==
    IF ~ExistsSync(tree, filePath) THEN TRUE ELSE reg[filePath] = NoRow


IsFileChanged(tree, reg, filePath) ==
    IF ~ExistsSync(tree, filePath) THEN TRUE
    ELSE IF reg[filePath] = NoRow THEN TRUE
    ELSE reg[filePath].hash # ComputeHash(tree[filePath])

\* updateFile returns without writing when the file is not on disk
UpdateFileWrites(tree, filePath) == ExistsSync(tree, filePath)

\* the row of INSERT OR REPLACE INTO file_registry
UpdateFile(tree, reg, filePath, skeleton, now) ==
    IF UpdateFileWrites(tree, filePath)
    THEN [ reg EXCEPT ![filePath] =
             [ hash |-> ComputeHash(tree[filePath]),
               last_indexed |-> now,
               skeleton_signature |-> skeleton ] ]
    ELSE reg

\* REPLACE deletes the conflicting registry row first, and ON DELETE CASCADE
\* removes the rows that reference it
ReplacesRow(tree, reg, filePath) ==
    UpdateFileWrites(tree, filePath) /\ reg[filePath] # NoRow

CascadeEdges(tree, reg, E, filePath) ==
    IF ReplacesRow(tree, reg, filePath)
    THEN { e \in E : e.source # filePath }
    ELSE E

CascadeChunks(tree, reg, C, filePath) ==
    IF ReplacesRow(tree, reg, filePath)
    THEN { c \in C : c.file_path # filePath }
    ELSE C

(***************************************************************************)
(* The Store: constraints of AgentDB.initSchema and the writes of the      *)
(* indexer.                                                                *)
(***************************************************************************)
\* variant: foreign keys are not enforced
ForeignKeyOk_Off(reg, path) == TRUE


\* FOREIGN KEY(...) REFERENCES file_registry(path)
ForeignKeyOk(reg, path) == path \in DOMAIN reg /\ reg[path] # NoRow

\* PRIMARY KEY (source, target) of dependency_graph
EdgeKeyConflict(E, edge) ==
    \E r \in E : r.source = edge.sourcePath /\ r.target = edge.targetPath

EdgeRow(edge) ==
    [ source |-> edge.sourcePath, target |-> edge.targetPath,
      relation |-> edge.relation ]

\* INSERT OR IGNORE INTO dependency_graph, for the first n buffered edges
RECURSIVE RunMany(_, _, _)
RunMany(E, pend, n) ==
    IF n = 0 THEN E
    ELSE LET before == RunMany(E, pend, n - 1)
         IN  IF EdgeKeyConflict(before, pend[n]) THEN before
             ELSE before \cup { EdgeRow(pend[n]) }

\* the transaction of saveGraph throws when an inserted row breaks the
\* foreign key
SaveGraphThrows(reg, E, pend) ==
    \E n \in 1..Len(pend) :
        /\ ~EdgeKeyConflict(RunMany(E, pend, n - 1), pend[n])
        /\ ~ForeignKeyOk(reg, pend[n].sourcePath)

\* embedAndSaveBatches: allChunks.slice(i, i + BATCH_SIZE)
MinOf(a, b) == IF a < b THEN a ELSE b
Batch(allChunks, i) == SubSeq(allChunks, i + 1, MinOf(i + BATCH_SIZE, Len(allChunks)))

TextToEmbed(c) ==
    [ meta |-> IF c.metadata.methodName # Null THEN "Method" ELSE "Class",
      name |-> IF c.metadata.methodName # Null
               THEN c.metadata.methodName ELSE c.metadata.className,
      content |-> c.content ]

\* the row written by insertChunk.run: the column list has no parent column
ChunkRow(chunk, vector) ==
    [ id |-> chunk.id,
      file_path |-> chunk.filePath,
      chunk_type |-> chunk.type,
      content |-> chunk.content,
      vector_json |-> vector,
      metadata |-> chunk.metadata ]

\* INSERT OR REPLACE INTO code_chunks, for the first n chunks of the batch
RECURSIVE InsertMany(_, _, _, _)
InsertMany(C, batch, vectors, n) ==
    IF n = 0 THEN C
    ELSE LET before == InsertMany(C, batch, vectors, n - 1)
         IN  { c \in before : c.id # batch[n].id }
                 \cup { ChunkRow(batch[n], vectors[n]) }

\* the transaction throws when vectors[idx] is undefined or the foreign key
\* of file_path is broken
InsertManyThrows(reg, batch, vectors) ==
    \E n \in 1..Len(batch) :
        \/ n > Len(vectors)
        \/ ~ForeignKeyOk(reg, batch[n].filePath)

(***************************************************************************)
(* IndexerService                                                          *)
(***************************************************************************)
IsCandidate(file) == EndsWith(file, ".ts") /\ ~EndsWith(file, ".spec.ts")

GetAllFiles(tree) ==
    SelectSeq(WalkOrder, LAMBDA p : ExistsSync(tree, p) /\ IsCandidate(p))

\* variant: the change check is left out
SelectChanged_NoFilter(tree, reg) == GetAllFiles(tree)


SelectChanged(tree, reg) ==
    SelectSeq(GetAllFiles(tree), LAMBDA p : IsFileChanged(tree, reg, p))

\* variant: the graph pass is left out, the run goes on to the embeddings
AfterPassA_SkipGraph == "passC"


\* where the run goes after the loop of Pass A
AfterPassA == "passB"
\* where the run goes after saveGraph
AfterPassB(pending) == IF Len(pending) > 0 THEN "passC" ELSE "done"
\* variant: a failed batch ends the loop
AfterBatchFailure_Stop(pending, i) == "done"


\* where the run goes after the catch of a failed batch
AfterBatchFailure(pending, i) ==
    IF i + BATCH_SIZE < Len(pending) THEN "passC" ELSE "done"
\* variant: a failed file ends the run
AfterFileFailure_Abort(files, i) == "raised"


\* where the run goes after the catch of processSingleFile
AfterFileFailure(files, i) == IF i < Len(files) THEN "passA" ELSE AfterPassA

Running == { "passA", "passB", "passC", "embedding" }
Stopped == { "idle", "done", "raised", "cancelled" }

\* every candidate file on disk has a registry row holding the hash of its text
FullyIndexed ==
    \A p \in AllPaths :
        ExistsSync(fs, p) /\ IsCandidate(p) =>
            /\ registry[p] # NoRow
            /\ registry[p].hash = ComputeHash(fs[p])

NewHist(h, prevPc) ==
    [ unchanged |-> prevPc \in {"done", "raised"} /\ h.dirty = 0,
      single |-> IF h.dirty = 1 /\ h.cleanBefore THEN h.altered ELSE Null,
      dirty |-> 0,
      cleanBefore |-> FALSE,
      altered |-> Null,
      analyzed |-> {},
      registered |-> {},
      failed |-> {},
      graph |-> "none",
      requests |-> 0,
      events |-> << >>,
      badBatches |-> {},
      goodBatches |-> {},
      cancelledAt |-> Null,
      cancelledIdx |-> 0,
      lostEdges |-> {},
      lostChunks |-> {},
      prevLostEdges |-> h.lostEdges,
      prevLostChunks |-> h.lostChunks ]

\* the process holds its connection to the Store: getInstance has run once
StoreOpened ==
    /\ instance = Connection(1)
    /\ dbLog = [ opened |-> 1, schemaRuns |-> 1, returned |-> << Connection(1) >> ]

\* no tool has started an indexProject run and no graph command is running
NoTasks ==
    /\ tasks = << >>
    /\ messages = << >>
    /\ cli = [ at |-> "idle" ]

\* no run of the agent graph is under way
AgentIdle ==
    /\ node = "idle"
    /\ lastMessage = << >>
    /\ session_files = {}
    /\ run = [ path |-> << >>, executed |-> << >>, approved |-> FALSE, steps |-> 0 ]

Init ==
    /\ fs = [ p \in AllPaths |->
                CASE p = PathA -> "v2"
                  [] p = PathB -> "v1"
                  [] OTHER -> "v1" ]
    /\ registry = [ p \in AllPaths |-> NoRow ]
    /\ edges = {}
    /\ chunks = {}
    /\ clock = 0
    /\ nextId = 1
    /\ pc = "idle"
    /\ filesToProcess = << >>
    /\ idx = 1
    /\ pendingChunks = << >>
    /\ pendingEdges = << >>
    /\ batchStart = 0
    /\ runs = 0
    /\ edits = 0
    /\ snap = [ fs |-> [ p \in AllPaths |-> Absent ],
               registry |-> [ p \in AllPaths |-> NoRow ],
               edges |-> {}, chunks |-> {} ]
    /\ hist = NewHist([ dirty |-> 1, cleanBefore |-> FALSE, altered |-> Null,
                         lostEdges |-> {}, lostChunks |-> {} ], "idle")
    /\ host = Posix
    /\ StoreOpened
    /\ AgentIdle
    /\ NoTasks
    /\ answer = NoAnswer

\* indexProject up to the end of the change check (lines 33-59)
StartIndex ==
    /\ pc \in Stopped
    /\ runs < MaxRuns
    /\ runs' = runs + 1
    /\ clock' = clock + 1
    /\ filesToProcess' = SelectChanged(fs, registry)
    /\ pc' = IF Len(filesToProcess') = 0 THEN "done" ELSE "passA"
    /\ idx' = 1
    /\ pendingChunks' = << >>
    /\ pendingEdges' = << >>
    /\ batchStart' = 0
    /\ snap' = [ fs |-> fs, registry |-> registry, edges |-> edges,
                chunks |-> chunks ]
    /\ hist' = NewHist(hist, pc)
    /\ UNCHANGED << fs, registry, edges, chunks, nextId, edits >>
    /\ UNCHANGED << host, answer, instance, dbLog, node, lastMessage,
                    session_files, run, tasks, messages,
                    cli >>

\* variant: the edges of the file are saved as soon as it is analyzed
EdgesAfterFile_SaveInline(tree, reg, E, filePath, dependencies) ==
    RunMany(CascadeEdges(tree, reg, E, filePath), dependencies, Len(dependencies))


\* dependency_graph after processSingleFile: the edges of the file are only
\* accumulated (edgeAccumulator.push), saveGraph is not called here
EdgesAfterFile(tree, reg, E, filePath, dependencies) ==
    CascadeEdges(tree, reg, E, filePath)

\* const chunksWithFile = analysis.chunks.map((c) => ({ ...c, filePath }))
WithFile(c, filePath) ==
    [ id |-> c.id, type |-> c.type, parentId |-> c.parentId,
      content |-> c.content, metadata |-> c.metadata, filePath |-> filePath ]

\* One iteration of Pass A: processSingleFile(filesToProcess[idx], ...).
\* Another writer may remove the file before it is read, or between the read
\* of processSingleFile and the existsSync of updateFile (gone).
ProcessSingleFile ==
    /\ pc = "passA"
    /\ idx <= Len(filesToProcess)
    /\ \E gone \in { "no", "beforeRead", "beforeUpdate" } :
        LET filePath == filesToProcess[idx]
            treeRead == IF gone = "beforeRead"
                        THEN [ fs EXCEPT ![filePath] = Absent ] ELSE fs
            treeUpdate == IF gone = "no"
                          THEN fs ELSE [ fs EXCEPT ![filePath] = Absent ]
            readThrows == ~ExistsSync(treeRead, filePath)
            content == treeRead[filePath]
            throws == IF readThrows THEN TRUE ELSE AnalysisThrows(content)
            analysis == Analyze(treeRead, filePath, content, nextId)
        IN  /\ gone # "no" => edits < MaxEdits
            /\ gone = "beforeUpdate" => ~throws
            /\ fs' = treeUpdate
            /\ edits' = IF gone = "no" THEN edits ELSE edits + 1
            /\ idx' = idx + 1
            /\ IF throws
               THEN /\ pc' = AfterFileFailure(filesToProcess, idx)
                    /\ hist' = [ hist EXCEPT
                                   !.analyzed = @ \cup { filePath },
                                   !.failed = IF readThrows THEN @
                                              ELSE @ \cup { filePath } ]
                    /\ UNCHANGED << registry, edges, chunks, nextId,
                                    pendingChunks, pendingEdges >>
               ELSE /\ pc' = IF idx < Len(filesToProcess) THEN "passA" ELSE AfterPassA
                    /\ registry' = UpdateFile(treeUpdate, registry, filePath,
                                              analysis.skeleton, clock)
                    /\ edges' = EdgesAfterFile(treeUpdate, registry, edges, filePath,
                                            analysis.dependencies)
                    /\ chunks' = CascadeChunks(treeUpdate, registry, chunks, filePath)
                    /\ pendingEdges' = pendingEdges \o analysis.dependencies
                    /\ pendingChunks' = pendingChunks \o
                          [ i \in 1..Len(analysis.chunks) |->
                                WithFile(analysis.chunks[i], filePath) ]
                    /\ nextId' = nextId + Len(analysis.chunks)
                    /\ hist' = [ hist EXCEPT
                                   !.analyzed = @ \cup { filePath },
                                   !.registered =
                                       IF UpdateFileWrites(treeUpdate, filePath)
                                       THEN @ \cup { filePath } ELSE @ ]
    /\ UNCHANGED << clock, filesToProcess, batchStart, runs, snap >>
    /\ UNCHANGED << host, answer, instance, dbLog, node, lastMessage,
                    session_files, run, tasks, messages,
                    cli >>

\* what an aborted transaction of saveGraph leaves in dependency_graph
EdgesAfterAbort(E, pend) == E

\* Pass B: if (pendingEdges.length > 0) this.saveGraph(pendingEdges).
\* saveGraph is not inside a try: when its transaction throws, indexProject
\* rejects.
SaveGraph ==
    /\ pc = "passB"
    /\ \E storeError \in BOOLEAN :
        IF Len(pendingEdges) = 0
        THEN /\ storeError = FALSE
             /\ pc' = AfterPassB(pendingChunks)
             /\ hist' = [ hist EXCEPT !.graph = "skipped" ]
             /\ UNCHANGED edges
        ELSE IF storeError \/ SaveGraphThrows(registry, edges, pendingEdges)
        THEN /\ pc' = "raised"
             /\ edges' = EdgesAfterAbort(edges, pendingEdges)
             /\ hist' = [ hist EXCEPT
                            !.graph = "aborted",
                            !.lostEdges = { EdgeRow(pendingEdges[i]) :
                                              i \in 1..Len(pendingEdges) } ]
        ELSE /\ pc' = AfterPassB(pendingChunks)
             /\ edges' = RunMany(edges, pendingEdges, Len(pendingEdges))
             /\ hist' = [ hist EXCEPT !.graph = "saved" ]
    /\ UNCHANGED << fs, registry, chunks, clock, nextId, filesToProcess, idx,
                    pendingChunks, pendingEdges, batchStart, runs, edits, snap >>
    /\ UNCHANGED << host, answer, instance, dbLog, node, lastMessage,
                    session_files, run, tasks, messages,
                    cli >>

\* Pass C, one batch: embeddingsModel.embedDocuments(textsToEmbed) is issued
EmbedRequest ==
    /\ pc = "passC"
    /\ pc' = "embedding"
    /\ hist' = [ hist EXCEPT !.requests = @ + 1,
                             !.events = Append(@, "embedIssued") ]
    /\ UNCHANGED << fs, registry, edges, chunks, clock, nextId, filesToProcess,
                    idx, pendingChunks, pendingEdges, batchStart, runs, edits,
                    snap >>
    /\ UNCHANGED << host, answer, instance, dbLog, node, lastMessage,
                    session_files, run, tasks, messages,
                    cli >>

\* the vectors the embedding service answers with: one per text, one too few
\* or one too many
VectorsFor(batch, count) ==
    [ i \in 1..count |->
        IF i <= Len(batch) THEN [ embeddingOf |-> TextToEmbed(batch[i]) ]
        ELSE [ embeddingOf |-> Null ] ]

\* variant: no rollback, the rows written before the failure stay
ChunksAfterAbort_Partial(C, batch, vectors) ==
    InsertMany(C, batch, vectors, MinOf(Len(batch), Len(vectors)))


\* what an aborted transaction of insertMany leaves in code_chunks
ChunksAfterAbort(C, batch, vectors) == C

\* a chunk of a batch that was not written; write tells that the embedding
\* call had returned and the failure is the one of the transaction
LostChunk(c, write) ==
    [ id |-> c.id, filePath |-> c.filePath, content |-> c.content, write |-> write ]

\* variant: the transaction is begun while the embedding call is in flight
SettleEvents_BeginFirst(outcome, fails) ==
    IF outcome = "throws" THEN << "begin", "embedThrew", "rollback" >>
    ELSE << "begin", "embedReturned", IF fails THEN "rollback" ELSE "commit" >>

\* what the loop body does once the awaited embedding call has settled: a
\* rejection goes to the catch; otherwise insertMany(batch, vectors) begins
\* its transaction and commits it, or rolls it back when a statement throws
SettleEvents(outcome, fails) ==
    IF outcome = "throws" THEN << "embedThrew" >>
    ELSE << "embedReturned", "begin", IF fails THEN "rollback" ELSE "commit" >>

\* Pass C, one batch: the embedding call settles, then insertMany(batch,
\* vectors) runs; the catch of the loop body takes every failure.
EmbedResponse ==
    /\ pc = "embedding"
    /\ \E outcome \in { "ok", "throws", "short", "long" }, storeError \in BOOLEAN :
        LET batch == Batch(pendingChunks, batchStart)
            count == CASE outcome = "short" -> Len(batch) - 1
                       [] outcome = "long" -> Len(batch) + 1
                       [] OTHER -> Len(batch)
            vectors == VectorsFor(batch, count)
            fails == IF outcome = "throws" \/ storeError THEN TRUE
                     ELSE InsertManyThrows(registry, batch, vectors)
        IN  /\ outcome = "throws" => storeError = FALSE
            /\ IF fails
               THEN /\ chunks' = ChunksAfterAbort(chunks, batch, vectors)
                    /\ pc' = AfterBatchFailure(pendingChunks, batchStart)
                    /\ hist' = [ hist EXCEPT
                                   !.events = @ \o SettleEvents(outcome, fails),
                                   !.badBatches = @ \cup { batchStart },
                                   !.lostChunks = @ \cup
                                       { LostChunk(batch[i], outcome # "throws") :
                                           i \in 1..Len(batch) } ]
               ELSE /\ chunks' = InsertMany(chunks, batch, vectors, Len(batch))
                    /\ pc' = IF batchStart + BATCH_SIZE < Len(pendingChunks)
                             THEN "passC" ELSE "done"
                    /\ hist' = [ hist EXCEPT
                                   !.events = @ \o SettleEvents(outcome, fails),
                                   !.goodBatches = @ \cup { batchStart } ]
    /\ batchStart' = batchStart + BATCH_SIZE
    /\ UNCHANGED << fs, registry, edges, clock, nextId, filesToProcess, idx,
                    pendingChunks, pendingEdges, runs, edits, snap >>
    /\ UNCHANGED << host, answer, instance, dbLog, node, lastMessage,
                    session_files, run, tasks, messages,
                    cli >>

\* the process is stopped while a run is under way
Cancel ==
    /\ pc \in Running
    /\ pc' = "cancelled"
    /\ hist' = [ hist EXCEPT !.cancelledAt = pc, !.cancelledIdx = idx ]
    /\ UNCHANGED << fs, registry, edges, chunks, clock, nextId, filesToProcess,
                    idx, pendingChunks, pendingEdges, batchStart, runs, edits,
                    snap >>
    /\ UNCHANGED << host, answer, instance, dbLog, node, lastMessage,
                    session_files, run, tasks, messages,
                    cli >>

\* another writer creates, rewrites or removes a file between two runs
Edit ==
    /\ pc \in Stopped
    /\ edits < MaxEdits
    /\ \E p \in EditablePaths, c \in Contents \cup { Absent } :
        /\ c # fs[p]
        /\ fs' = [ fs EXCEPT ![p] = c ]
        /\ hist' = [ hist EXCEPT
                       !.dirty = IF @ = 0 THEN 1 ELSE 2,
                       !.cleanBefore = /\ hist.dirty = 0
                                       /\ FullyIndexed
                                       /\ fs[p] # Absent
                                       /\ c # Absent,
                       !.altered = p,
                       !.failed = @ \ { p },
                       !.lostChunks = { k \in @ : k.filePath # p } ]
    /\ edits' = edits + 1
    /\ UNCHANGED << registry, edges, chunks, clock, nextId, pc, filesToProcess,
                    idx, pendingChunks, pendingEdges, batchStart, runs, snap >>
    /\ UNCHANGED << host, answer, instance, dbLog, node, lastMessage,
                    session_files, run, tasks, messages,
                    cli >>

Next ==
    \/ StartIndex
    \/ ProcessSingleFile
    \/ SaveGraph
    \/ EmbedRequest
    \/ EmbedResponse
    \/ Cancel
    \/ Edit

Spec == Init /\ [][Next]_vars

TypeOK ==
    /\ pc \in Running \cup Stopped
    /\ \A e \in edges : ForeignKeyOk(registry, e.source)
    /\ \A c \in chunks : ForeignKeyOk(registry, c.file_path)

(***************************************************************************)
(* Paths on a host.  getAllFiles keeps path.relative(process.cwd(), ...),  *)
(* which is written with path.sep; the chunker writes targetPath with '/'. *)
(***************************************************************************)
\* file names of the source directory seen by the readers of the Store
FileNames == { "a.ts", "b.ts" }
\* path.relative(process.cwd(), absolutePath)
NativePath(sep, name) == SrcDir \o sep \o name
\* resolved.split(path.sep).join('/')
ForwardPath(name) == SrcDir \o "/" \o name
\* the paths a caller may pass
CallerPaths == { NativePath(sep, n) : sep \in Seps, n \in FileNames }

\* p.split(path.sep).join('/'), over the paths of the model
NormalizePath(sep, p) ==
    IF \E n \in FileNames : p = NativePath(sep, n)
    THEN ForwardPath(CHOOSE n \in FileNames : p = NativePath(sep, n))
    ELSE p

\* export type DependencyRelation
DependencyRelation == { "import", "extends", "implements", "injects" }

(***************************************************************************)
(* queryDependencyGraphTool (analysis-tools.ts)                            *)
(***************************************************************************)
\* variant: only the normalized form is looked up
MatchesPath_NormalizedOnly(sep, column, filePath) ==
    column = NormalizePath(sep, filePath)

\* WHERE <column> = ? OR <column> = ?  bound to (normalizedPath, filePath)
MatchesPath(sep, column, filePath) ==
    column = NormalizePath(sep, filePath) \/ column = filePath

QueryDependencyGraph(E, sep, filePath, direction) ==
    LET results ==
            IF direction = "inbound"
            THEN { [ other |-> e.source, relation |-> e.relation ] :
                     e \in { x \in E : MatchesPath(sep, x.target, filePath) } }
            ELSE { [ other |-> e.target, relation |-> e.relation ] :
                     e \in { x \in E : MatchesPath(sep, x.source, filePath) } }
    IN  [ kind |-> IF results = {} THEN "info" ELSE "graph", rows |-> results ]

(***************************************************************************)
(* RetrieverService lookups (retriever.ts)                                 *)
(***************************************************************************)
\* the order in which a scan of dependency_graph returns the targets
TargetNames == << "a.ts", "b.ts", "c.ts", "d.ts", "e.ts", "f.ts", "g.ts", "h.ts" >>
ScanOrder == [ i \in 1..Len(TargetNames) |-> ForwardPath(TargetNames[i]) ]

GetDependencies(E, sep, sourcePath) ==
    LET rows == { x \in E : MatchesPath(sep, x.source, sourcePath) }
    IN  SelectSeq(ScanOrder, LAMBDA t : \E x \in rows : x.target = t)

GetFileSkeleton(reg, sep, sourcePath) ==
    LET rows == { q \in DOMAIN reg : /\ reg[q] # NoRow
                                     /\ MatchesPath(sep, q, sourcePath) }
    IN  IF rows = {} THEN Undefined
        ELSE reg[CHOOSE q \in rows : TRUE].skeleton_signature

(***************************************************************************)
(* The graph on a host: saveGraph on an accumulator of edges, then the     *)
(* readers.                                                                *)
(***************************************************************************)
MaxPending == 2

\* GraphEdge values handed to saveGraph on a host
EdgeInputs(sep) ==
    [ sourcePath : { NativePath(sep, n) : n \in FileNames },
      targetPath : { ForwardPath(n) : n \in FileNames },
      relation : DependencyRelation ]

Accumulators(sep) == UNION { [ 1..n -> EdgeInputs(sep) ] : n \in 0..MaxPending }

\* the registry after Pass A registered the files of names on this host
RegisteredOn(sep, names) ==
    [ q \in { NativePath(sep, n) : n \in FileNames } |->
        IF \E n \in names : q = NativePath(sep, n)
        THEN [ hash |-> ComputeHash("v1"), last_indexed |-> 1,
               skeleton_signature |-> GenerateSkeleton("v1") ]
        ELSE NoRow ]

InitGraph ==
    /\ host \in Seps
    /\ StoreOpened
    /\ AgentIdle
    /\ NoTasks
    /\ \E names \in SUBSET FileNames : /\ names # {}
                                       /\ registry = RegisteredOn(host, names)
    /\ pendingEdges \in Accumulators(host)
    /\ pc = "passB"
    /\ fs = [ p \in AllPaths |-> "v1" ]
    /\ edges = {}
    /\ chunks = {}
    /\ clock = 1
    /\ nextId = 1
    /\ filesToProcess = << >>
    /\ idx = 1
    /\ pendingChunks = << >>
    /\ batchStart = 0
    /\ runs = 1
    /\ edits = 0
    /\ snap = [ fs |-> fs, registry |-> registry, edges |-> {}, chunks |-> {} ]
    /\ hist = NewHist([ dirty |-> 1, cleanBefore |-> FALSE, altered |-> Null,
                         lostEdges |-> {}, lostChunks |-> {} ], "idle")
    /\ answer = NoAnswer

\* a call of query_dependency_graph
QueryDependencyGraphCall ==
    /\ pc \in Stopped
    /\ \E filePath \in CallerPaths, direction \in { "inbound", "outbound" } :
        answer' = [ op |-> "query_dependency_graph", filePath |-> filePath,
                    direction |-> direction,
                    result |-> QueryDependencyGraph(edges, host, filePath, direction) ]
    /\ UNCHANGED << fs, registry, edges, chunks, clock, nextId, pc, filesToProcess,
                    idx, pendingChunks, pendingEdges, batchStart, runs, edits,
                    snap, hist, host, instance, dbLog,
                    node, lastMessage, session_files, run, tasks, messages,
                    cli >>

\* the two lookups getContextForLLM makes for a file
RetrieverLookup ==
    /\ pc \in Stopped
    /\ \E filePath \in CallerPaths :
        answer' = [ op |-> "lookup", filePath |-> filePath,
                    imports |-> GetDependencies(edges, host, filePath),
                    skeleton |-> GetFileSkeleton(registry, host, filePath) ]
    /\ UNCHANGED << fs, registry, edges, chunks, clock, nextId, pc, filesToProcess,
                    idx, pendingChunks, pendingEdges, batchStart, runs, edits,
                    snap, hist, host, instance, dbLog,
                    node, lastMessage, session_files, run, tasks, messages,
                    cli >>

NextGraph ==
    \/ SaveGraph
    \/ QueryDependencyGraphCall
    \/ RetrieverLookup

GraphSpec == InitGraph /\ [][NextGraph]_vars

(***************************************************************************)
(* cosineSimilarity (rag/math.ts) and RetrieverService.query               *)
(***************************************************************************)
\* similarities are kept in thousandths; the vectors of the model have
\* whole norms, so the quotient is exact
Scale == 1000
Sqrt(n) == CHOOSE r \in 0..n : r * r = n
RECURSIVE Dot(_, _, _)
Dot(vecA, vecB, n) ==
    IF n = 0 THEN 0 ELSE Dot(vecA, vecB, n - 1) + vecA[n] * vecB[n]

\* variant: only a first vector longer than the second one is refused
DimensionMismatch_Longer(vecA, vecB) == Len(vecA) > Len(vecB)

\* if (vecA.length !== vecB.length) throw
DimensionMismatch(vecA, vecB) == Len(vecA) # Len(vecB)

CosineSimilarity(vecA, vecB) ==
    LET dotProduct == Dot(vecA, vecB, Len(vecA))
        normA == Dot(vecA, vecA, Len(vecA))
        normB == Dot(vecB, vecB, Len(vecB))
    IN  IF normA = 0 \/ normB = 0 THEN 0
        ELSE (dotProduct * Scale) \div (Sqrt(normA) * Sqrt(normB))

\* SELECT * FROM code_chunks: the rows in rowid order
Rows(C) == [ i \in 1..Cardinality(C) |-> CHOOSE r \in C : r.rowid = i ]

\* rows.map((row) => ({ score, chunk }))
ScoredChunk(queryVector, row) ==
    [ score |-> CosineSimilarity(queryVector, row.vector_json),
      chunk |-> [ id |-> row.id, type |-> row.chunk_type, content |-> row.content,
                  metadata |-> row.metadata, filePath |-> row.file_path ] ]

\* variant: a comparator that puts an element before its equals
InsertDesc_BeforeEquals(sorted, x) ==
    LET k == Cardinality({ i \in 1..Len(sorted) : sorted[i].score > x.score })
    IN  SubSeq(sorted, 1, k) \o << x >> \o SubSeq(sorted, k + 1, Len(sorted))

\* one step of sort((a, b) => b.score - a.score), which is stable: x goes
\* behind the elements that are not smaller
InsertDesc(sorted, x) ==
    LET k == Cardinality({ i \in 1..Len(sorted) : sorted[i].score >= x.score })
    IN  SubSeq(sorted, 1, k) \o << x >> \o SubSeq(sorted, k + 1, Len(sorted))

RECURSIVE SortDesc(_, _)
SortDesc(scored, n) ==
    IF n = 0 THEN << >> ELSE InsertDesc(SortDesc(scored, n - 1), scored[n])

\* Array.prototype.slice(0, limit) for limit >= 0
Slice(seq, limit) == SubSeq(seq, 1, MinOf(limit, Len(seq)))

Query(C, queryVector, limit) ==
    LET rows == Rows(C)
        scoredChunks == [ i \in 1..Len(rows) |-> ScoredChunk(queryVector, rows[i]) ]
    IN  IF \E row \in C : DimensionMismatch(queryVector, row.vector_json)
        THEN [ threw |-> TRUE ]
        ELSE [ threw |-> FALSE,
               hits |-> Slice(SortDesc(scoredChunks, Len(scoredChunks)), limit) ]

(***************************************************************************)
(* RetrieverService.getContextForLLM                                       *)
(***************************************************************************)
\* this.query(query, 4)
ContextLimit == 4
\* fileCtx.imports.slice(0, 5)
TopImports == 5

\* the keys of filesMap in insertion order: the paths of the hits, each at
\* its first occurrence
RECURSIVE FilesOf(_, _)
FilesOf(hits, n) ==
    IF n = 0 THEN << >>
    ELSE LET before == FilesOf(hits, n - 1)
             path == hits[n].chunk.filePath
         IN  IF \E i \in 1..Len(before) : before[i] = path THEN before
             ELSE Append(before, path)

\* variant: the relevance is overwritten by every hit of the file
RelevanceOf_LastHit(hits, path) ==
    LET last == CHOOSE i \in 1..Len(hits) :
                  /\ hits[i].chunk.filePath = path
                  /\ \A j \in (i + 1)..Len(hits) : hits[j].chunk.filePath # path
    IN  hits[last].score

\* relevance: res.score of the hit that created the entry of the file
RelevanceOf(hits, path) ==
    LET first == CHOOSE i \in 1..Len(hits) :
                   /\ hits[i].chunk.filePath = path
                   /\ \A j \in 1..(i - 1) : hits[j].chunk.filePath # path
    IN  hits[first].score

\* (relevance * 100).toFixed(1)
ToFixed1(score) == [ whole |-> score \div 10, tenth |-> score % 10 ]

\* variant: every import is listed
ImportLines_All(imports) == imports

\* the '   - <imp>' lines of a file
ImportLines(imports) == Slice(imports, TopImports)

\* the '(...and N more)' lines of a file: none or one, holding N
MoreLines(imports) ==
    IF Len(imports) > TopImports THEN << Len(imports) - TopImports >> ELSE << >>

\* one block of the report
FileSection(C, E, reg, sep, hits, path) ==
    LET imports == GetDependencies(E, sep, path)
        mine == SelectSeq(hits, LAMBDA h : h.chunk.filePath = path)
    IN  [ filePath |-> path,
          relevance |-> RelevanceOf(hits, path),
          relevancePct |-> ToFixed1(RelevanceOf(hits, path)),
          header |-> Len(imports) > 0,
          importLines |-> ImportLines(imports),
          moreLines |-> MoreLines(imports),
          skeleton |-> GetFileSkeleton(reg, sep, path),
          snippets |-> [ i \in 1..Len(mine) |-> mine[i].chunk.id ] ]

GetContextForLLM(C, E, reg, sep, queryVector) ==
    LET results == Query(C, queryVector, ContextLimit)
    IN  IF results.threw THEN [ threw |-> TRUE ]
        ELSE LET files == FilesOf(results.hits, Len(results.hits))
             IN  [ threw |-> FALSE,
                   found |-> Len(files),
                   sections |-> [ i \in 1..Len(files) |->
                       FileSection(C, E, reg, sep, results.hits, files[i]) ] ]

(***************************************************************************)
(* The retriever over a Store left by the indexer                          *)
(***************************************************************************)
MaxRows == 4
MaxLimit == 3
MaxImports == 6

\* embeddings of the stored chunks and of the queries
StoredVectors == { << 1, 0 >>, << 3, 4 >> }
QueryVectors == { << 1, 0 >>, << 0, 0 >>, << 1 >> }

\* the rows of code_chunks after n inserts
ChunkTables ==
    UNION { { { [ rowid |-> i, id |-> i, file_path |-> NativePath(Posix, f[i]),
                  chunk_type |-> "method", content |-> i,
                  vector_json |-> v[i],
                  metadata |-> [ methodName |-> MethodName(i) ] ] : i \in 1..n } :
              f \in [ 1..n -> FileNames ], v \in [ 1..n -> StoredVectors ] } :
            n \in 0..MaxRows }

\* dependency_graph: a.ts imports the first k targets, b.ts imports a.ts
ImportTables ==
    { { [ source |-> NativePath(Posix, "a.ts"), target |-> ScanOrder[i],
          relation |-> "import" ] : i \in 1..k }
      \cup { [ source |-> NativePath(Posix, "b.ts"), target |-> ForwardPath("a.ts"),
               relation |-> "import" ] } : k \in 0..MaxImports }

InitRetriever ==
    /\ host = Posix
    /\ StoreOpened
    /\ AgentIdle
    /\ NoTasks
    /\ registry = RegisteredOn(host, FileNames)
    /\ chunks \in ChunkTables
    /\ edges \in ImportTables
    /\ pc = "done"
    /\ fs = [ p \in AllPaths |-> "v1" ]
    /\ clock = 1
    /\ nextId = 1
    /\ filesToProcess = << >>
    /\ idx = 1
    /\ pendingChunks = << >>
    /\ pendingEdges = << >>
    /\ batchStart = 0
    /\ runs = 1
    /\ edits = 0
    /\ snap = [ fs |-> fs, registry |-> registry, edges |-> edges, chunks |-> chunks ]
    /\ hist = NewHist([ dirty |-> 1, cleanBefore |-> FALSE, altered |-> Null,
                         lostEdges |-> {}, lostChunks |-> {} ], "idle")
    /\ answer = NoAnswer

\* a call of query(text, limit); queryVector is embedQuery(text)
QueryCall ==
    /\ \E queryVector \in QueryVectors, limit \in 0..MaxLimit :
        answer' = [ op |-> "query", queryVector |-> queryVector, limit |-> limit,
                    result |-> Query(chunks, queryVector, limit) ]
    /\ UNCHANGED << fs, registry, edges, chunks, clock, nextId, pc, filesToProcess,
                    idx, pendingChunks, pendingEdges, batchStart, runs, edits,
                    snap, hist, host, instance, dbLog,
                    node, lastMessage, session_files, run, tasks, messages,
                    cli >>

\* a call of getContextForLLM(text)
ContextCall ==
    /\ \E queryVector \in QueryVectors :
        answer' = [ op |-> "getContextForLLM", queryVector |-> queryVector,
                    result |-> GetContextForLLM(chunks, edges, registry, host,
                                                queryVector) ]
    /\ UNCHANGED << fs, registry, edges, chunks, clock, nextId, pc, filesToProcess,
                    idx, pendingChunks, pendingEdges, batchStart, runs, edits,
                    snap, hist, host, instance, dbLog,
                    node, lastMessage, session_files, run, tasks, messages,
                    cli >>

NextRetriever ==
    \/ QueryCall
    \/ ContextCall

RetrieverSpec == InitRetriever /\ [][NextRetriever]_vars

(***************************************************************************)
(* cosineSimilarity on its own, and query over tables whose vectors differ *)
(* in length and in norm.                                                  *)
(***************************************************************************)
MaxStored == 2
Vectors == { << 1, 0 >>, << 0, 0 >>, << 3, 4 >>, << 1 >>, << 0 >> }

\* what a call of cosineSimilarity(vecA, vecB) gives its caller
CosineSimilarityOutcome(vecA, vecB) ==
    IF DimensionMismatch(vecA, vecB)
    THEN [ threw |-> TRUE ]
    ELSE [ threw |-> FALSE, value |-> CosineSimilarity(vecA, vecB) ]

\* the rows of code_chunks after n inserts, with vectors of any kind
VectorTables ==
    UNION { { { [ rowid |-> i, id |-> i, file_path |-> NativePath(Posix, "a.ts"),
                  chunk_type |-> "method", content |-> i,
                  vector_json |-> v[i],
                  metadata |-> [ methodName |-> MethodName(i) ] ] : i \in 1..n } :
              v \in [ 1..n -> Vectors ] } :
            n \in 0..MaxStored }

InitCosine ==
    /\ host = Posix
    /\ StoreOpened
    /\ AgentIdle
    /\ NoTasks
    /\ registry = RegisteredOn(host, FileNames)
    /\ chunks \in VectorTables
    /\ edges = {}
    /\ pc = "done"
    /\ fs = [ p \in AllPaths |-> "v1" ]
    /\ clock = 1
    /\ nextId = 1
    /\ filesToProcess = << >>
    /\ idx = 1
    /\ pendingChunks = << >>
    /\ pendingEdges = << >>
    /\ batchStart = 0
    /\ runs = 1
    /\ edits = 0
    /\ snap = [ fs |-> fs, registry |-> registry, edges |-> edges, chunks |-> chunks ]
    /\ hist = NewHist([ dirty |-> 1, cleanBefore |-> FALSE, altered |-> Null,
                         lostEdges |-> {}, lostChunks |-> {} ], "idle")
    /\ answer = NoAnswer

\* a call of cosineSimilarity(vecA, vecB)
CosineCall ==
    /\ \E vecA \in Vectors, vecB \in Vectors :
        answer' = [ op |-> "cosineSimilarity", vecA |-> vecA, vecB |-> vecB,
                    result |-> CosineSimilarityOutcome(vecA, vecB) ]
    /\ UNCHANGED << fs, registry, edges, chunks, clock, nextId, pc, filesToProcess,
                    idx, pendingChunks, pendingEdges, batchStart, runs, edits,
                    snap, hist, host, instance, dbLog,
                    node, lastMessage, session_files, run, tasks, messages,
                    cli >>

NextCosine ==
    \/ CosineCall
    \/ QueryCall

CosineSpec == InitCosine /\ [][NextCosine]_vars

(***************************************************************************)
(* extractDependencies over trees with directories                         *)
(***************************************************************************)
MaxSpecifiers == 2

PathX == "src/x"
PathXTs == "src/x" \o ".ts"
PathXIndex == "src/x" \o "/index.ts"
PathS == "src/s" \o ".ts"
\* module specifiers of the import declarations of src/s.ts
Specifiers == { "./x", "./nope", "lodash" }

\* the trees around src/x: a path below src/x exists only when src/x is a
\* directory
ResolutionTrees ==
    { t \in [ { PathS, PathX, PathXTs, PathXIndex } -> { Absent, Dir, "v1" } ] :
        /\ t[PathS] = "v1"
        /\ t[PathXIndex] # Dir
        /\ t[PathXIndex] # Absent => t[PathX] = Dir }

InitResolve ==
    /\ fs \in ResolutionTrees
    /\ answer \in { [ op |-> "analyze", imports |-> m ] :
                      m \in UNION { [ 1..n -> Specifiers ] : n \in 0..MaxSpecifiers } }
    /\ host = Posix
    /\ StoreOpened
    /\ AgentIdle
    /\ NoTasks
    /\ registry = [ p \in DOMAIN fs |-> NoRow ]
    /\ edges = {}
    /\ chunks = {}
    /\ pc = "passA"
    /\ clock = 1
    /\ nextId = 1
    /\ filesToProcess = << PathS >>
    /\ idx = 1
    /\ pendingChunks = << >>
    /\ pendingEdges = << >>
    /\ batchStart = 0
    /\ runs = 1
    /\ edits = 0
    /\ snap = [ fs |-> fs, registry |-> registry, edges |-> {}, chunks |-> {} ]
    /\ hist = NewHist([ dirty |-> 1, cleanBefore |-> FALSE, altered |-> Null,
                         lostEdges |-> {}, lostChunks |-> {} ], "idle")

\* extractDependencies(sourceFile, sourcePath) on the file of filesToProcess
ExtractCall ==
    /\ answer.op = "analyze"
    /\ answer' = [ op |-> "extractDependencies", imports |-> answer.imports,
                   dependencies |-> ExtractDependenciesOf(fs, answer.imports,
                                                          filesToProcess[idx]) ]
    /\ UNCHANGED << fs, registry, edges, chunks, clock, nextId, pc, filesToProcess,
                    idx, pendingChunks, pendingEdges, batchStart, runs, edits,
                    snap, hist, host, instance, dbLog,
                    node, lastMessage, session_files, run, tasks, messages,
                    cli >>

NextResolve == ExtractCall

ResolveSpec == InitResolve /\ [][NextResolve]_vars

(***************************************************************************)
(* The file tools (tools/file-tools.ts) and analyze_code_structure         *)
(* (tools/analysis-tools.ts) on the disk of the host.  Paths of the disk   *)
(* are absolute.                                                           *)
(***************************************************************************)
MaxCalls == 2

\* process.cwd()
RootDir == "/proj"
\* path.dirname(RootDir), with its trailing separator
RootParent == "/"
\* a file of the project, a file the project does not have yet, a file of a
\* sibling directory whose name starts with the name of the root, and a file
\* elsewhere
FileIn == RootDir \o "/src/a.ts"
FileNew == RootDir \o "/src/n.ts"
FileSibling == RootDir \o "-evil/a.ts"
FileFar == "/etc/a.ts"
\* the filePath arguments of the callers
ArgIn == "src/a.ts"
ArgNew == "src/n.ts"
ArgSibling == "../proj-evil/a.ts"
ArgFar == "/etc/a.ts"
CallerArgs == { ArgIn, ArgNew, ArgSibling, ArgFar }

\* path.resolve(rootDir, filePath)
Resolve(rootDir, filePath) ==
    IF filePath \in { FileFar } THEN filePath
    ELSE IF \E rest \in { "proj-evil/a.ts" } : filePath = "../" \o rest
    THEN RootParent \o (CHOOSE rest \in { "proj-evil/a.ts" } : filePath = "../" \o rest)
    ELSE rootDir \o "/" \o filePath

\* String.prototype.startsWith over the paths of the disk
PathTails == { "", "/src/a.ts", "/src/n.ts", "-evil/a.ts" }
StartsWith(str, prefix) == \E tail \in PathTails : str = prefix \o tail

\* path.basename
Basename(target) == IF target = FileNew THEN "n.ts" ELSE "a.ts"

\* new Date().toISOString().replace(/[:.]/g, "-"), one value per call
BackupDir == RootDir \o "/.agent/backups"
BackupPath(now, filename) ==
    BackupDir \o "/" \o Numerals[now] \o "_" \o filename \o ".bak"

DiskPaths ==
    { FileIn, FileNew, FileSibling, FileFar }
        \cup { BackupPath(t, n) : t \in 1..(MaxCalls + 1), n \in { "a.ts", "n.ts" } }

\* if (!targetPath.startsWith(rootDir)) return "Access denied"
AccessDenied(targetPath, rootDir) == ~StartsWith(targetPath, rootDir)

\* variant: an error of createBackup is swallowed
ContinuesAfterBackup_Always(backupThrew) == TRUE

\* createBackup is called inside the try of safe_write_file, before
\* writeFileSync: when it throws, the catch returns
ContinuesAfterBackup(backupThrew) == ~backupThrew

\* safe_write_file: the steps taken, in order, and the disk they leave
SafeWrite(disk, rootDir, filePath, content, now, copyThrows, writeThrows) ==
    LET targetPath == Resolve(rootDir, filePath)
        exists == ExistsSync(disk, targetPath)
        backupPath == BackupPath(now, Basename(targetPath))
        backupThrew == exists /\ copyThrows
        backedUp == IF exists /\ ~copyThrows
                    THEN [ disk EXCEPT ![backupPath] = disk[targetPath] ]
                    ELSE disk
        backupSteps == IF ~exists THEN << >>
                       ELSE IF copyThrows THEN << "backupFailed" >>
                       ELSE << "backup" >>
    IN  IF AccessDenied(targetPath, rootDir)
        THEN [ kind |-> "denied", steps |-> << >>, disk |-> disk ]
        ELSE IF ~ContinuesAfterBackup(backupThrew)
        THEN [ kind |-> "error", steps |-> backupSteps, disk |-> backedUp ]
        ELSE IF writeThrows
        THEN [ kind |-> "error", steps |-> backupSteps \o << "writeFailed" >>,
               disk |-> backedUp ]
        ELSE [ kind |-> IF exists THEN "modified" ELSE "created",
               steps |-> backupSteps \o << "write", "reindex" >>,
               disk |-> [ backedUp EXCEPT ![targetPath] = content ] ]

\* safe_read_file
SafeRead(disk, rootDir, filePath) ==
    LET targetPath == Resolve(rootDir, filePath)
    IN  IF ~ExistsSync(disk, targetPath)
        THEN [ kind |-> "notFound", steps |-> << >> ]
        ELSE IF AccessDenied(targetPath, rootDir)
        THEN [ kind |-> "denied", steps |-> << >> ]
        ELSE [ kind |-> "content", steps |-> << "read" >>,
               content |-> disk[targetPath] ]

\* delete_file
DeleteFile(disk, rootDir, filePath) ==
    LET fullPath == Resolve(rootDir, filePath)
    IN  IF ~ExistsSync(disk, fullPath)
        THEN [ kind |-> "notFound", steps |-> << >>, disk |-> disk ]
        ELSE [ kind |-> "deleted", steps |-> << "delete" >>,
               disk |-> [ disk EXCEPT ![fullPath] = Absent ] ]

\* analyze_code_structure
AnalyzeCodeStructure(disk, rootDir, filePath) ==
    LET targetPath == Resolve(rootDir, filePath)
    IN  IF ~ExistsSync(disk, targetPath)
        THEN [ kind |-> "notFound", steps |-> << >> ]
        ELSE IF AnalysisThrows(disk[targetPath])
        THEN [ kind |-> "error", steps |-> << "read" >> ]
        ELSE [ kind |-> "structure", steps |-> << "read" >>,
               skeleton |-> GenerateSkeleton(disk[targetPath]) ]

InitFiles ==
    /\ fs = [ q \in DiskPaths |->
                IF q \in { FileIn, FileSibling, FileFar } THEN "v1" ELSE Absent ]
    /\ clock = 1
    /\ runs = 0
    /\ answer = NoAnswer
    /\ host = Posix
    /\ StoreOpened
    /\ AgentIdle
    /\ NoTasks
    /\ registry = [ q \in AllPaths |-> NoRow ]
    /\ edges = {}
    /\ chunks = {}
    /\ pc = "idle"
    /\ nextId = 1
    /\ filesToProcess = << >>
    /\ idx = 1
    /\ pendingChunks = << >>
    /\ pendingEdges = << >>
    /\ batchStart = 0
    /\ edits = 0
    /\ snap = [ fs |-> fs, registry |-> registry, edges |-> {}, chunks |-> {} ]
    /\ hist = NewHist([ dirty |-> 1, cleanBefore |-> FALSE, altered |-> Null,
                         lostEdges |-> {}, lostChunks |-> {} ], "idle")

\* what a call leaves in answer
CallRecord(op, filePath, out) ==
    [ op |-> op, filePath |-> filePath, target |-> Resolve(RootDir, filePath),
      now |-> clock, previous |-> fs[Resolve(RootDir, filePath)],
      kind |-> out.kind, steps |-> out.steps ]

\* a call of safe_write_file; on success it starts an indexProject run
SafeWriteFileCall ==
    /\ clock <= MaxCalls
    /\ \E filePath \in CallerArgs, content \in { "v1", "v2", "bad" },
          copyThrows \in BOOLEAN, writeThrows \in BOOLEAN :
        LET out == SafeWrite(fs, RootDir, filePath, content, clock,
                             copyThrows, writeThrows)
        IN  /\ fs' = out.disk
            /\ answer' = CallRecord("safe_write_file", filePath, out)
            /\ runs' = IF out.kind \in { "modified", "created" }
                       THEN runs + 1 ELSE runs
    /\ clock' = clock + 1
    /\ UNCHANGED << registry, edges, chunks, nextId, pc, filesToProcess, idx,
                    pendingChunks, pendingEdges, batchStart, edits, snap, hist,
                    host, instance, dbLog,
                    node, lastMessage, session_files, run, tasks, messages,
                    cli >>

SafeReadFileCall ==
    /\ clock <= MaxCalls
    /\ \E filePath \in CallerArgs :
        answer' = CallRecord("safe_read_file", filePath,
                             SafeRead(fs, RootDir, filePath))
    /\ clock' = clock + 1
    /\ UNCHANGED << fs, registry, edges, chunks, nextId, pc, filesToProcess, idx,
                    pendingChunks, pendingEdges, batchStart, runs, edits, snap,
                    hist, host, instance, dbLog,
                    node, lastMessage, session_files, run, tasks, messages,
                    cli >>

DeleteFileCall ==
    /\ clock <= MaxCalls
    /\ \E filePath \in CallerArgs :
        LET out == DeleteFile(fs, RootDir, filePath)
        IN  /\ fs' = out.disk
            /\ answer' = CallRecord("delete_file", filePath, out)
    /\ clock' = clock + 1
    /\ UNCHANGED << registry, edges, chunks, nextId, pc, filesToProcess, idx,
                    pendingChunks, pendingEdges, batchStart, runs, edits, snap,
                    hist, host, instance, dbLog,
                    node, lastMessage, session_files, run, tasks, messages,
                    cli >>

AnalyzeCodeStructureCall ==
    /\ clock <= MaxCalls
    /\ \E filePath \in CallerArgs :
        answer' = CallRecord("analyze_code_structure", filePath,
                             AnalyzeCodeStructure(fs, RootDir, filePath))
    /\ clock' = clock + 1
    /\ UNCHANGED << fs, registry, edges, chunks, nextId, pc, filesToProcess, idx,
                    pendingChunks, pendingEdges, batchStart, runs, edits, snap,
                    hist, host, instance, dbLog,
                    node, lastMessage, session_files, run, tasks, messages,
                    cli >>

NextFiles ==
    \/ SafeWriteFileCall
    \/ SafeReadFileCall
    \/ DeleteFileCall
    \/ AnalyzeCodeStructureCall

FileSpec == InitFiles /\ [][NextFiles]_vars

(***************************************************************************)
(* NestChunker.analyze as a function of the path and the text of a file.   *)
(***************************************************************************)
AtomicSuffixes == { ".dto.ts", ".entity.ts", ".interface.ts", ".enum.ts", ".type.ts" }
AtomicPaths == { "src/c" \o suffix : suffix \in AtomicSuffixes }
AnalyzedPaths == AtomicPaths \cup { PathA, PathB }
Texts == Contents \cup { "v3", "v4", "empty" }
\* number of chunk ids handed out before the call
FirstIds == { 1, 12 }

InitChunker ==
    /\ answer \in { [ op |-> "input", filePath |-> p, content |-> c, firstId |-> n ] :
                      p \in AnalyzedPaths, c \in Texts, n \in FirstIds }
    /\ fs = [ p \in AllPaths |-> IF p \in EditablePaths THEN "v1" ELSE "v2" ]
    /\ host = Posix
    /\ StoreOpened
    /\ AgentIdle
    /\ NoTasks
    /\ registry = [ p \in DOMAIN fs |-> NoRow ]
    /\ edges = {}
    /\ chunks = {}
    /\ pc = "idle"
    /\ clock = 1
    /\ nextId = 1
    /\ filesToProcess = << >>
    /\ idx = 1
    /\ pendingChunks = << >>
    /\ pendingEdges = << >>
    /\ batchStart = 0
    /\ runs = 0
    /\ edits = 0
    /\ snap = [ fs |-> fs, registry |-> registry, edges |-> {}, chunks |-> {} ]
    /\ hist = NewHist([ dirty |-> 1, cleanBefore |-> FALSE, altered |-> Null,
                         lostEdges |-> {}, lostChunks |-> {} ], "idle")

\* chunker.analyze(filePath, content)
AnalyzeCall ==
    /\ answer.op = "input"
    /\ answer' = IF AnalysisThrows(answer.content)
                 THEN [ op |-> "analyze", filePath |-> answer.filePath,
                        content |-> answer.content, firstId |-> answer.firstId,
                        threw |-> TRUE, chunks |-> << >> ]
                 ELSE [ op |-> "analyze", filePath |-> answer.filePath,
                        content |-> answer.content, firstId |-> answer.firstId,
                        threw |-> FALSE,
                        chunks |-> Analyze(fs, answer.filePath, answer.content,
                                           answer.firstId).chunks ]
    /\ UNCHANGED << fs, registry, edges, chunks, clock, nextId, pc, filesToProcess,
                    idx, pendingChunks, pendingEdges, batchStart, runs, edits,
                    snap, hist, host, instance, dbLog,
                    node, lastMessage, session_files, run, tasks, messages,
                    cli >>

NextChunker == AnalyzeCall

ChunkerSpec == InitChunker /\ [][NextChunker]_vars

(***************************************************************************)
(* AgentDB.getInstance (state/db.ts).  A call runs to its end without      *)
(* interleaving: the function is synchronous.                              *)
(***************************************************************************)
MaxGets == 4

\* how the statements of the first branch end: all succeed, or one of them
\* throws (fs.mkdirSync, new Database, pragma, initSchema)
DbOutcomes == { "ok", "mkdirThrows", "openThrows", "pragmaThrows", "schemaThrows" }

\* the statement that throws stands before this.instance = new Database(dbPath)
ThrowsBeforeAssignment(outcome) == outcome \in { "mkdirThrows", "openThrows" }

\* this.instance when the call ends
InstanceAfter(inst, opened, outcome) ==
    IF inst # Undefined THEN inst
    ELSE IF ThrowsBeforeAssignment(outcome) THEN Undefined
    ELSE Connection(opened + 1)

\* what the caller gets: the connection, or the error thrown
GetInstance(inst, opened, outcome) ==
    IF inst # Undefined THEN inst
    ELSE IF outcome = "ok" THEN Connection(opened + 1)
    ELSE [ threw |-> outcome ]

InitDb ==
    /\ instance = Undefined
    /\ dbLog = [ opened |-> 0, schemaRuns |-> 0, returned |-> << >> ]
    /\ AgentIdle
    /\ NoTasks
    /\ answer = NoAnswer
    /\ fs = [ p \in AllPaths |-> IF p \in EditablePaths THEN "v1" ELSE "v2" ]
    /\ host = Posix
    /\ registry = [ p \in DOMAIN fs |-> NoRow ]
    /\ edges = {}
    /\ chunks = {}
    /\ pc = "idle"
    /\ clock = 1
    /\ nextId = 1
    /\ filesToProcess = << >>
    /\ idx = 1
    /\ pendingChunks = << >>
    /\ pendingEdges = << >>
    /\ batchStart = 0
    /\ runs = 0
    /\ edits = 0
    /\ snap = [ fs |-> fs, registry |-> registry, edges |-> {}, chunks |-> {} ]
    /\ hist = NewHist([ dirty |-> 1, cleanBefore |-> FALSE, altered |-> Null,
                         lostEdges |-> {}, lostChunks |-> {} ], "idle")

\* AgentDB.getInstance()
GetInstanceCall ==
    /\ Len(dbLog.returned) < MaxGets
    /\ \E outcome \in DbOutcomes :
          /\ instance # Undefined => outcome = "ok"
          /\ instance' = InstanceAfter(instance, dbLog.opened, outcome)
          /\ dbLog' = [ opened |-> IF instance = Undefined
                                      /\ ~ThrowsBeforeAssignment(outcome)
                                   THEN dbLog.opened + 1 ELSE dbLog.opened,
                        schemaRuns |-> IF instance = Undefined /\ outcome = "ok"
                                       THEN dbLog.schemaRuns + 1
                                       ELSE dbLog.schemaRuns,
                        returned |-> Append(dbLog.returned,
                                            GetInstance(instance, dbLog.opened,
                                                        outcome)) ]
    /\ UNCHANGED << fs, registry, edges, chunks, clock, nextId, pc, filesToProcess,
                    idx, pendingChunks, pendingEdges, batchStart, runs, edits,
                    snap, hist, host, answer, node, lastMessage, session_files,
                    run, tasks, messages,
                    cli >>

NextDb == GetInstanceCall

DbSpec == InitDb /\ [][NextDb]_vars

(***************************************************************************)
(* The graph agent (GraphAgentFactory.create): nodes, routing and the      *)
(* breakpoint before dangerous_actor.  The model answers the agent node    *)
(* with any message of at most MaxToolCalls tool calls.  The tools act on  *)
(* two files of the project; the Store is left out of these runs.          *)
(***************************************************************************)
MaxToolCalls == 2
MaxAgentSteps == 3

ResearchTools == { "ask_codebase", "list_files", "safe_read_file",
                   "refresh_project_index", "analyze_code_structure",
                   "query_dependency_graph" }
ValuationTools == { "run_integrity_check", "run_tests" }
ModificationTools == { "safe_write_file", "delete_file" }
DangerousTools == { "execute_command", "ask_human" }

\* a file the agent may create and a file that was there before the session
FileCreated == "src/new.ts"
FileLegacy == "src/old.ts"
AgentFiles == { FileCreated, FileLegacy }

ToolCall(name, filePath) == [ name |-> name, args |-> [ filePath |-> filePath ] ]

\* the tool calls a message of the model may hold; the last one names no tool
\* of the agent
ToolCalls ==
    { ToolCall(name, Null) :
        name \in { "list_files", "run_tests", "execute_command", "ask_human",
                   "unknown_tool" } }
    \cup { ToolCall("safe_write_file", FileCreated) }
    \cup { ToolCall("delete_file", f) : f \in AgentFiles }

\* response.tool_calls of the message the model returns
Messages == UNION { [ 1..n -> ToolCalls ] : n \in 0..MaxToolCalls }

\* the conditional edge of the agent node
Route(toolCalls, sessionFiles) ==
    IF Len(toolCalls) = 0 THEN "END"
    ELSE LET name == toolCalls[1].name
             filePath == toolCalls[1].args.filePath
         IN  IF name \in ResearchTools THEN "researcher"
             ELSE IF name \in ValuationTools THEN "safe_actor"
             ELSE IF name \in DangerousTools THEN "dangerous_actor"
             ELSE IF name = "safe_write_file" THEN "safe_actor"
             ELSE IF name = "delete_file"
             THEN IF filePath \in sessionFiles THEN "safe_actor"
                  ELSE "dangerous_actor"
             ELSE "END"

\* variant: a tool node ends the run
AfterToolNode_End(toolNode) == "END"

\* addEdge("researcher", "agent"), addEdge("safe_actor", "agent"),
\* addEdge("dangerous_actor", "agent")
AfterToolNode(toolNode) == "agent"

\* compile({ interruptBefore: ["dangerous_actor"] })
InterruptBefore == { "dangerous_actor" }

\* the disk after one tool has been invoked
DiskAfter(call, disk) ==
    CASE call.name = "safe_write_file" ->
            [ disk EXCEPT ![call.args.filePath] = "v1" ]
      [] call.name = "delete_file" ->
            [ disk EXCEPT ![call.args.filePath] = Absent ]
      [] OTHER -> disk

\* for (const toolCall of lastMessage.tool_calls): the first n calls, of
\* which those whose tool is in the list of the node are invoked
RECURSIVE RunTools(_, _, _, _)
RunTools(toolCalls, n, tools, disk) ==
    IF n = 0 THEN [ disk |-> disk, invoked |-> << >>, created |-> {} ]
    ELSE LET before == RunTools(toolCalls, n - 1, tools, disk)
             call == toolCalls[n]
             filePath == call.args.filePath
             existed == filePath \in AgentFiles /\ before.disk[filePath] # Absent
         IN  IF call.name \notin tools THEN before
             ELSE [ disk |-> DiskAfter(call, before.disk),
                    invoked |-> Append(before.invoked,
                                       [ name |-> call.name, filePath |-> filePath,
                                         existed |-> existed,
                                         fresh |-> filePath \in before.created ]),
                    created |-> IF call.name = "safe_write_file" /\ ~existed
                                THEN before.created \cup { filePath }
                                ELSE before.created ]

\* what a tool node leaves in the history of the run
Executed(invoked, toolNode, approved, sessionFiles) ==
    [ i \in 1..Len(invoked) |->
        [ name |-> invoked[i].name, filePath |-> invoked[i].filePath,
          existed |-> invoked[i].existed, fresh |-> invoked[i].fresh,
          node |-> toolNode,
          approved |-> approved,
          inSession |-> invoked[i].filePath \in sessionFiles ] ]

InitAgent ==
    /\ NoTasks
    /\ node = "START"
    /\ lastMessage = << >>
    /\ session_files = {}
    /\ run = [ path |-> << >>, executed |-> << >>, approved |-> FALSE, steps |-> 0 ]
    /\ fs = [ f \in AgentFiles |-> IF f = FileLegacy THEN "v1" ELSE Absent ]
    /\ StoreOpened
    /\ answer = NoAnswer
    /\ host = Posix
    /\ registry = [ p \in AllPaths |-> NoRow ]
    /\ edges = {}
    /\ chunks = {}
    /\ pc = "idle"
    /\ clock = 1
    /\ nextId = 1
    /\ filesToProcess = << >>
    /\ idx = 1
    /\ pendingChunks = << >>
    /\ pendingEdges = << >>
    /\ batchStart = 0
    /\ runs = 0
    /\ edits = 0
    /\ snap = [ fs |-> fs, registry |-> registry, edges |-> {}, chunks |-> {} ]
    /\ hist = NewHist([ dirty |-> 1, cleanBefore |-> FALSE, altered |-> Null,
                         lostEdges |-> {}, lostChunks |-> {} ], "idle")

\* agent.invoke({ messages: [new HumanMessage(instruction)] }, config): the
\* run starts at START; session_files of the thread is kept
Invoke ==
    /\ node \in { "START", "END" }
    /\ run.steps < MaxAgentSteps
    /\ node' = "indexer"
    /\ run' = [ run EXCEPT !.path = << >>, !.executed = << >>, !.approved = FALSE ]
    /\ UNCHANGED << fs, lastMessage, session_files >>
    /\ UNCHANGED << registry, edges, chunks, clock, nextId, pc, filesToProcess,
                    idx, pendingChunks, pendingEdges, batchStart, runs, edits,
                    snap, hist, host, answer, instance, dbLog,
                    tasks, messages, cli >>

IndexerNode ==
    /\ node = "indexer"
    /\ node' = "agent"
    /\ run' = [ run EXCEPT !.path = Append(@, "indexer") ]
    /\ UNCHANGED << fs, lastMessage, session_files >>
    /\ UNCHANGED << registry, edges, chunks, clock, nextId, pc, filesToProcess,
                    idx, pendingChunks, pendingEdges, batchStart, runs, edits,
                    snap, hist, host, answer, instance, dbLog,
                    tasks, messages, cli >>

\* agentNode and the conditional edge that follows it
AgentNode ==
    /\ node = "agent"
    /\ run.steps < MaxAgentSteps
    /\ \E message \in Messages :
          /\ lastMessage' = message
          /\ node' = Route(message, session_files)
    /\ run' = [ run EXCEPT !.path = Append(@, "agent"), !.steps = @ + 1,
                           !.executed = << >>, !.approved = FALSE ]
    /\ UNCHANGED << fs, session_files >>
    /\ UNCHANGED << registry, edges, chunks, clock, nextId, pc, filesToProcess,
                    idx, pendingChunks, pendingEdges, batchStart, runs, edits,
                    snap, hist, host, answer, instance, dbLog,
                    tasks, messages, cli >>

\* the human approves and the run is resumed: agent.invoke(null, config)
Resume ==
    /\ node \in InterruptBefore
    /\ ~run.approved
    /\ run' = [ run EXCEPT !.approved = TRUE ]
    /\ UNCHANGED << fs, node, lastMessage, session_files >>
    /\ UNCHANGED << registry, edges, chunks, clock, nextId, pc, filesToProcess,
                    idx, pendingChunks, pendingEdges, batchStart, runs, edits,
                    snap, hist, host, answer, instance, dbLog,
                    tasks, messages, cli >>

ResearcherNode ==
    /\ node = "researcher"
    /\ LET out == RunTools(lastMessage, Len(lastMessage), ResearchTools, fs)
       IN  run' = [ run EXCEPT !.path = Append(@, "researcher"),
                               !.executed = Executed(out.invoked, "researcher",
                                                     run.approved, session_files) ]
    /\ node' = AfterToolNode("researcher")
    /\ UNCHANGED << fs, lastMessage, session_files >>
    /\ UNCHANGED << registry, edges, chunks, clock, nextId, pc, filesToProcess,
                    idx, pendingChunks, pendingEdges, batchStart, runs, edits,
                    snap, hist, host, answer, instance, dbLog,
                    tasks, messages, cli >>

SafeActorNode ==
    /\ node = "safe_actor"
    /\ LET out == RunTools(lastMessage, Len(lastMessage),
                           ValuationTools \cup ModificationTools, fs)
       IN  /\ fs' = out.disk
           /\ session_files' = session_files \cup out.created
           /\ run' = [ run EXCEPT !.path = Append(@, "safe_actor"),
                                  !.executed = Executed(out.invoked, "safe_actor",
                                                        run.approved, session_files) ]
    /\ node' = AfterToolNode("safe_actor")
    /\ UNCHANGED lastMessage
    /\ UNCHANGED << registry, edges, chunks, clock, nextId, pc, filesToProcess,
                    idx, pendingChunks, pendingEdges, batchStart, runs, edits,
                    snap, hist, host, answer, instance, dbLog,
                    tasks, messages, cli >>

DangerousActorNode ==
    /\ node = "dangerous_actor"
    /\ run.approved
    /\ LET out == RunTools(lastMessage, Len(lastMessage),
                           ModificationTools \cup DangerousTools, fs)
       IN  /\ fs' = out.disk
           /\ run' = [ run EXCEPT !.path = Append(@, "dangerous_actor"),
                                  !.executed = Executed(out.invoked, "dangerous_actor",
                                                        run.approved, session_files) ]
    /\ node' = AfterToolNode("dangerous_actor")
    /\ UNCHANGED << lastMessage, session_files >>
    /\ UNCHANGED << registry, edges, chunks, clock, nextId, pc, filesToProcess,
                    idx, pendingChunks, pendingEdges, batchStart, runs, edits,
                    snap, hist, host, answer, instance, dbLog,
                    tasks, messages, cli >>

NextAgent ==
    \/ Invoke
    \/ IndexerNode
    \/ AgentNode
    \/ Resume
    \/ ResearcherNode
    \/ SafeActorNode
    \/ DangerousActorNode

AgentSpec == InitAgent /\ [][NextAgent]_vars

(***************************************************************************)
(* indexProject runs that overlap in one process.  safe_write_file starts  *)
(* a run without awaiting it (file-tools.ts:37-38); the run executes up to *)
(* its first await inside the call of the tool and is resumed later, one   *)
(* await at a time, while other calls of the tool start runs of their own. *)
(* All runs share the disk and the Store.                                  *)
(***************************************************************************)
MaxTasks == 2
MaxRaces == 1

\* the files the tool is called on and the texts it writes
WritePaths == { PathA, PathB }
WriteContents == { "v1", "v2" }

\* the locals of one indexProject call
NewTask(files, wrote) ==
    [ pc |-> IF Len(files) = 0 THEN "done" ELSE "passA",
      filesToProcess |-> files,
      idx |-> 1,
      pendingChunks |-> << >>,
      pendingEdges |-> << >>,
      batchStart |-> 0,
      analyzed |-> {},
      failedBatches |-> 0,
      graph |-> "none",
      wrote |-> wrote ]

\* processSingleFile(filesToProcess[idx], pendingChunks, pendingEdges) of one
\* run: the file is read from treeRead; updateFile reads it again, from
\* treeUpdate
ProcessFile(task, treeRead, treeUpdate, reg, E, C, firstId, now) ==
    LET filePath == task.filesToProcess[task.idx]
        content == treeRead[filePath]
        throws == IF ~ExistsSync(treeRead, filePath) THEN TRUE
                  ELSE AnalysisThrows(content)
        analysis == Analyze(treeRead, filePath, content, firstId)
    IN  IF throws
        THEN [ task |-> [ task EXCEPT !.idx = @ + 1 ],
               registry |-> reg, edges |-> E, chunks |-> C, nextId |-> firstId ]
        ELSE [ task |-> [ task EXCEPT
                            !.idx = @ + 1,
                            !.pendingEdges = @ \o analysis.dependencies,
                            !.pendingChunks = @ \o
                                [ i \in 1..Len(analysis.chunks) |->
                                    WithFile(analysis.chunks[i], filePath) ],
                            !.analyzed = @ \cup { << filePath, content >> } ],
               registry |-> UpdateFile(treeUpdate, reg, filePath, analysis.skeleton,
                                       now),
               edges |-> EdgesAfterFile(treeUpdate, reg, E, filePath,
                                        analysis.dependencies),
               chunks |-> CascadeChunks(treeUpdate, reg, C, filePath),
               nextId |-> firstId + Len(analysis.chunks) ]

\* the disk when updateFile reads the file: another process may have
\* rewritten it since processSingleFile read it
DiskAtUpdate(tree, filePath, race) ==
    IF race = "no" THEN tree ELSE [ tree EXCEPT ![filePath] = race ]

\* Pass B and the entry of Pass C, which follow the loop of Pass A without an
\* await in between
AfterLoop(task, reg, E, storeError) ==
    IF Len(task.pendingEdges) > 0
       /\ (storeError \/ SaveGraphThrows(reg, E, task.pendingEdges))
    THEN [ task |-> [ task EXCEPT !.pc = "raised", !.graph = "aborted" ],
           edges |-> EdgesAfterAbort(E, task.pendingEdges) ]
    ELSE [ task |-> [ task EXCEPT
                        !.pc = IF Len(task.pendingChunks) > 0
                               THEN "embedding" ELSE "done",
                        !.graph = IF Len(task.pendingEdges) > 0
                                  THEN "saved" ELSE "skipped" ],
           edges |-> RunMany(E, task.pendingEdges, Len(task.pendingEdges)) ]

InitWrite ==
    /\ fs = [ p \in AllPaths |-> IF p = PathDto THEN Absent ELSE "v1" ]
    /\ registry = [ p \in AllPaths |-> NoRow ]
    /\ edges = {}
    /\ chunks = {}
    /\ tasks = << >>
    /\ messages = << >>
    /\ cli = [ at |-> "idle" ]
    /\ clock = 1
    /\ nextId = 1
    /\ edits = 0
    /\ pc = "idle"
    /\ filesToProcess = << >>
    /\ idx = 1
    /\ pendingChunks = << >>
    /\ pendingEdges = << >>
    /\ batchStart = 0
    /\ runs = 0
    /\ snap = [ fs |-> fs, registry |-> registry, edges |-> {}, chunks |-> {} ]
    /\ hist = NewHist([ dirty |-> 1, cleanBefore |-> FALSE, altered |-> Null,
                         lostEdges |-> {}, lostChunks |-> {} ], "idle")
    /\ host = Posix
    /\ StoreOpened
    /\ AgentIdle
    /\ answer = NoAnswer

\* safe_write_file({ filePath, content }) on a file under src: the file is
\* written, indexProject() is called and runs up to its first await, that is
\* through the change check and the first processSingleFile
WriteAndIndex ==
    /\ Len(tasks) < MaxTasks
    /\ \E filePath \in WritePaths, content \in WriteContents,
          race \in { "no" } \cup WriteContents :
        LET disk == [ fs EXCEPT ![filePath] = content ]
            files == SelectChanged(disk, registry)
            task == NewTask(files, [ filePath |-> filePath, content |-> content ])
        IN  IF Len(files) = 0
            THEN /\ race = "no"
                 /\ fs' = disk
                 /\ tasks' = Append(tasks, task)
                 /\ UNCHANGED << registry, edges, chunks, nextId, edits >>
            ELSE LET atUpdate == DiskAtUpdate(disk, files[1], race)
                     out == ProcessFile(task, disk, atUpdate, registry, edges,
                                        chunks, nextId, clock)
                 IN  /\ race # "no" => edits < MaxRaces /\ race # disk[files[1]]
                     /\ edits' = IF race = "no" THEN edits ELSE edits + 1
                     /\ fs' = atUpdate
                     /\ tasks' = Append(tasks, out.task)
                     /\ registry' = out.registry
                     /\ edges' = out.edges
                     /\ chunks' = out.chunks
                     /\ nextId' = out.nextId
    /\ clock' = clock + 1
    /\ UNCHANGED << pc, filesToProcess, idx, pendingChunks, pendingEdges,
                    batchStart, runs, snap, hist, host, answer, instance, dbLog,
                    node, lastMessage, session_files, run, messages, cli >>

\* a run is resumed after the await of a processSingleFile: the next file of
\* its list is processed, or the loop ends, saveGraph runs and the first
\* embedding call is issued
ResumeTask(t) ==
    /\ t \in 1..Len(tasks)
    /\ tasks[t].pc = "passA"
    /\ \E race \in { "no" } \cup WriteContents, storeError \in BOOLEAN :
        IF tasks[t].idx <= Len(tasks[t].filesToProcess)
        THEN LET filePath == tasks[t].filesToProcess[tasks[t].idx]
                 atUpdate == DiskAtUpdate(fs, filePath, race)
                 out == ProcessFile(tasks[t], fs, atUpdate, registry, edges, chunks,
                                    nextId, clock)
             IN  /\ ~storeError
                 /\ race # "no" => edits < MaxRaces /\ race # fs[filePath]
                 /\ edits' = IF race = "no" THEN edits ELSE edits + 1
                 /\ fs' = atUpdate
                 /\ tasks' = [ tasks EXCEPT ![t] = out.task ]
                 /\ registry' = out.registry
                 /\ edges' = out.edges
                 /\ chunks' = out.chunks
                 /\ nextId' = out.nextId
        ELSE LET out == AfterLoop(tasks[t], registry, edges, storeError)
             IN  /\ race = "no"
                 /\ storeError => Len(tasks[t].pendingEdges) > 0
                 /\ tasks' = [ tasks EXCEPT ![t] = out.task ]
                 /\ edges' = out.edges
                 /\ UNCHANGED << fs, registry, chunks, nextId, edits >>
    /\ UNCHANGED << clock, pc, filesToProcess, idx, pendingChunks, pendingEdges,
                    batchStart, runs, snap, hist, host, answer, instance, dbLog,
                    node, lastMessage, session_files, run, messages, cli >>

\* the embedding call of the current batch of a run settles; the batch is
\* written in one transaction, or dropped by the catch; the call of the next
\* batch is issued, or the run ends
EmbedSettles(t) ==
    /\ t \in 1..Len(tasks)
    /\ tasks[t].pc = "embedding"
    /\ \E outcome \in { "ok", "throws" } :
        LET task == tasks[t]
            batch == Batch(task.pendingChunks, task.batchStart)
            vectors == VectorsFor(batch, Len(batch))
            fails == IF outcome = "throws" THEN TRUE
                     ELSE InsertManyThrows(registry, batch, vectors)
        IN  /\ chunks' = IF fails THEN ChunksAfterAbort(chunks, batch, vectors)
                         ELSE InsertMany(chunks, batch, vectors, Len(batch))
            /\ tasks' = [ tasks EXCEPT ![t] =
                  [ task EXCEPT
                      !.failedBatches = IF fails THEN @ + 1 ELSE @,
                      !.batchStart = @ + BATCH_SIZE,
                      !.pc = IF task.batchStart + BATCH_SIZE < Len(task.pendingChunks)
                             THEN "embedding" ELSE "done" ] ]
    /\ UNCHANGED << fs, registry, edges, nextId, edits, clock, pc, filesToProcess,
                    idx, pendingChunks, pendingEdges, batchStart, runs, snap, hist,
                    host, answer, instance, dbLog, node, lastMessage,
                    session_files, run, messages, cli >>

NextWrite ==
    \/ WriteAndIndex
    \/ \E t \in 1..MaxTasks : ResumeTask(t)
    \/ \E t \in 1..MaxTasks : EmbedSettles(t)

WriteSpec == InitWrite /\ [][NextWrite]_vars

\* every await of a run settles: the continuation of a resolved await is run
\* by the event loop, and an embedding call resolves or rejects
FairWriteSpec ==
    /\ WriteSpec
    /\ \A t \in 1..MaxTasks : WF_vars(ResumeTask(t))
    /\ \A t \in 1..MaxTasks : WF_vars(EmbedSettles(t))

(***************************************************************************)
(* The command line of the graph agent (cli.ts): the first invoke, and the *)
(* loop that reads the state of the thread, asks the human at the          *)
(* breakpoint before dangerous_actor and resumes the graph.  messages      *)
(* holds state.messages from the last message of the model on: the nodes   *)
(* and the loop read the last message only.  The id of a tool call is its  *)
(* position in the message of the model.                                   *)
(***************************************************************************)

\* what the human types at a prompt
Answers == { "y", "Yes", "n", "", "y " }

\* answer.toLowerCase()
ToLowerCase(s) == IF s = "Yes" THEN "yes" ELSE s

\* variant: every answer is an approval
Confirmed_Always(reply) == TRUE

\* askConfirmation: resolve(answer.toLowerCase() === "y" || ... === "yes")
Confirmed(reply) == ToLowerCase(reply) = "y" \/ ToLowerCase(reply) = "yes"

HumanMessage == [ type |-> "human" ]
AIMessage(toolCalls) == [ type |-> "ai", tool_calls |-> toolCalls ]
ToolMessage(id, sender) == [ type |-> "tool", tool_call_id |-> id, sender |-> sender ]

\* lastMessage.tool_calls of state.messages[state.messages.length - 1]; a
\* HumanMessage and a ToolMessage have no tool_calls, which every reader
\* treats like an empty list
LastToolCalls(msgs) ==
    IF Len(msgs) = 0 THEN << >>
    ELSE IF msgs[Len(msgs)].type = "ai" THEN msgs[Len(msgs)].tool_calls
    ELSE << >>

\* the toolMessages a node returns: one for each of the first n calls whose
\* tool is in the list of the node
RECURSIVE ToolMessagesOf(_, _, _, _)
ToolMessagesOf(toolCalls, n, tools, sender) ==
    IF n = 0 THEN << >>
    ELSE LET before == ToolMessagesOf(toolCalls, n - 1, tools, sender)
         IN  IF toolCalls[n].name \in tools
             THEN Append(before, ToolMessage(n, sender))
             ELSE before

\* agent.updateState(config, { messages }) is called without asNode: the
\* library either leaves the interrupted node as the next node, or applies
\* the update as the node that ran last (agent) and evaluates its
\* conditional edge on the updated state
UpdateOutcomes == { "pending", "rerouted" }

NextAfterUpdate(msgs, sessionFiles, outcome) ==
    IF outcome = "pending" THEN "dangerous_actor"
    ELSE Route(LastToolCalls(msgs), sessionFiles)

\* invoke returns when the graph has no next node or stops at the breakpoint
\* a conditional edge has led to
InvokeReturns(nextNode) == nextNode = "END" \/ nextNode \in InterruptBefore

InitCli ==
    /\ tasks = << >>
    /\ messages = << >>
    /\ cli = [ at |-> "idle", answer |-> Null, resumes |-> 0, created |-> {} ]
    /\ node = "START"
    /\ lastMessage = << >>
    /\ session_files = {}
    /\ run = [ path |-> << >>, executed |-> << >>, approved |-> FALSE, steps |-> 0 ]
    /\ fs = [ f \in AgentFiles |-> IF f = FileLegacy THEN "v1" ELSE Absent ]
    /\ StoreOpened
    /\ answer = NoAnswer
    /\ host = Posix
    /\ registry = [ p \in AllPaths |-> NoRow ]
    /\ edges = {}
    /\ chunks = {}
    /\ pc = "idle"
    /\ clock = 1
    /\ nextId = 1
    /\ filesToProcess = << >>
    /\ idx = 1
    /\ pendingChunks = << >>
    /\ pendingEdges = << >>
    /\ batchStart = 0
    /\ runs = 0
    /\ edits = 0
    /\ snap = [ fs |-> fs, registry |-> registry, edges |-> {}, chunks |-> {} ]
    /\ hist = NewHist([ dirty |-> 1, cleanBefore |-> FALSE, altered |-> Null,
                         lostEdges |-> {}, lostChunks |-> {} ], "idle")

\* let response = await agent.invoke({ messages: [new HumanMessage(...)] })
CliInvoke ==
    /\ cli.at = "idle"
    /\ node' = "indexer"
    /\ messages' = << HumanMessage >>
    /\ cli' = [ cli EXCEPT !.at = "invoking" ]
    /\ UNCHANGED << fs, session_files, run, lastMessage >>
    /\ UNCHANGED << registry, edges, chunks, clock, nextId, pc, filesToProcess,
                    idx, pendingChunks, pendingEdges, batchStart, runs, edits,
                    snap, hist, host, answer, instance, dbLog, tasks >>

IndexerStep ==
    /\ cli.at = "invoking"
    /\ node = "indexer"
    /\ node' = "agent"
    /\ run' = [ run EXCEPT !.path = Append(@, "indexer") ]
    /\ UNCHANGED << fs, session_files, messages, cli, lastMessage >>
    /\ UNCHANGED << registry, edges, chunks, clock, nextId, pc, filesToProcess,
                    idx, pendingChunks, pendingEdges, batchStart, runs, edits,
                    snap, hist, host, answer, instance, dbLog, tasks >>

\* agentNode appends the response of the model; the conditional edge picks
\* the next node, and the run stops there if it is dangerous_actor or END
AgentStep ==
    /\ cli.at = "invoking"
    /\ node = "agent"
    /\ run.steps < MaxAgentSteps
    /\ \E message \in Messages :
          /\ messages' = << AIMessage(message) >>
          /\ node' = Route(message, session_files)
          /\ cli' = [ cli EXCEPT !.at = IF InvokeReturns(node') THEN "loop"
                                        ELSE "invoking" ]
    /\ run' = [ run EXCEPT !.path = Append(@, "agent"), !.steps = @ + 1,
                           !.executed = << >>, !.approved = FALSE ]
    /\ UNCHANGED << fs, session_files, lastMessage >>
    /\ UNCHANGED << registry, edges, chunks, clock, nextId, pc, filesToProcess,
                    idx, pendingChunks, pendingEdges, batchStart, runs, edits,
                    snap, hist, host, answer, instance, dbLog, tasks >>

ResearcherStep ==
    /\ cli.at = "invoking"
    /\ node = "researcher"
    /\ LET toolCalls == LastToolCalls(messages)
           out == RunTools(toolCalls, Len(toolCalls), ResearchTools, fs)
       IN  /\ messages' = messages \o ToolMessagesOf(toolCalls, Len(toolCalls),
                                                     ResearchTools, "researcher")
           /\ run' = [ run EXCEPT
                         !.path = Append(@, "researcher"),
                         !.executed = @ \o Executed(out.invoked, "researcher",
                                                    run.approved, session_files) ]
    /\ node' = AfterToolNode("researcher")
    /\ UNCHANGED << fs, session_files, cli, lastMessage >>
    /\ UNCHANGED << registry, edges, chunks, clock, nextId, pc, filesToProcess,
                    idx, pendingChunks, pendingEdges, batchStart, runs, edits,
                    snap, hist, host, answer, instance, dbLog, tasks >>

SafeActorStep ==
    /\ cli.at = "invoking"
    /\ node = "safe_actor"
    /\ LET toolCalls == LastToolCalls(messages)
           tools == ValuationTools \cup ModificationTools
           out == RunTools(toolCalls, Len(toolCalls), tools, fs)
       IN  /\ fs' = out.disk
           /\ messages' = messages \o ToolMessagesOf(toolCalls, Len(toolCalls),
                                                     tools, "safe_actor")
           /\ session_files' = session_files \cup out.created
           /\ cli' = [ cli EXCEPT !.created = @ \cup out.created ]
           /\ run' = [ run EXCEPT
                         !.path = Append(@, "safe_actor"),
                         !.executed = @ \o Executed(out.invoked, "safe_actor",
                                                    run.approved, session_files) ]
    /\ node' = AfterToolNode("safe_actor")
    /\ UNCHANGED lastMessage
    /\ UNCHANGED << registry, edges, chunks, clock, nextId, pc, filesToProcess,
                    idx, pendingChunks, pendingEdges, batchStart, runs, edits,
                    snap, hist, host, answer, instance, dbLog, tasks >>

\* dangerous_actor runs when the loop has resumed the graph; the last message
\* is then the ToolMessage the loop has added
DangerousActorStep ==
    /\ cli.at = "invoking"
    /\ node = "dangerous_actor"
    /\ LET toolCalls == LastToolCalls(messages)
           tools == ModificationTools \cup DangerousTools
           out == RunTools(toolCalls, Len(toolCalls), tools, fs)
       IN  /\ fs' = out.disk
           /\ messages' = messages \o ToolMessagesOf(toolCalls, Len(toolCalls),
                                                     tools, "dangerous_actor")
           /\ cli' = [ cli EXCEPT !.created = @ \cup out.created ]
           /\ run' = [ run EXCEPT
                         !.path = Append(@, "dangerous_actor"),
                         !.executed = @ \o Executed(out.invoked, "dangerous_actor",
                                                    run.approved, session_files) ]
    /\ node' = AfterToolNode("dangerous_actor")
    /\ UNCHANGED << session_files, lastMessage >>
    /\ UNCHANGED << registry, edges, chunks, clock, nextId, pc, filesToProcess,
                    idx, pendingChunks, pendingEdges, batchStart, runs, edits,
                    snap, hist, host, answer, instance, dbLog, tasks >>

\* the head of the loop: getState, break when there is no next node, else
\* the prompt that the first tool call of the last message selects
GetState ==
    /\ cli.at = "loop"
    /\ cli' = [ cli EXCEPT
                  !.answer = Null,
                  !.at = IF node = "END" THEN "ended"
                         ELSE IF LastToolCalls(messages)[1].name = "ask_human"
                         THEN "question" ELSE "confirm" ]
    /\ UNCHANGED << fs, node, session_files, messages, run, lastMessage >>
    /\ UNCHANGED << registry, edges, chunks, clock, nextId, pc, filesToProcess,
                    idx, pendingChunks, pendingEdges, batchStart, runs, edits,
                    snap, hist, host, answer, instance, dbLog, tasks >>

\* CASE 1: the human answers the question of ask_human; the answer becomes
\* the ToolMessage of the first call and the graph is resumed
AnswerQuestion ==
    /\ cli.at = "question"
    /\ \E reply \in Answers, outcome \in UpdateOutcomes :
          /\ messages' = Append(messages, ToolMessage(1, "cli"))
          /\ node' = NextAfterUpdate(messages', session_files, outcome)
          /\ cli' = [ cli EXCEPT !.answer = reply,
                                 !.resumes = @ + 1,
                                 !.at = IF node' = "END" THEN "loop"
                                        ELSE "invoking" ]
    /\ run' = [ run EXCEPT !.approved = TRUE ]
    /\ UNCHANGED << fs, session_files, lastMessage >>
    /\ UNCHANGED << registry, edges, chunks, clock, nextId, pc, filesToProcess,
                    idx, pendingChunks, pendingEdges, batchStart, runs, edits,
                    snap, hist, host, answer, instance, dbLog, tasks >>

\* CASE 2: askConfirmation("Do you approve these actions?"); on approval one
\* ToolMessage per tool call is added and the graph is resumed, else the
\* action returns
Confirm ==
    /\ cli.at = "confirm"
    /\ \E reply \in Answers, outcome \in UpdateOutcomes :
          LET toolCalls == LastToolCalls(messages)
          IN  IF Confirmed(reply)
              THEN /\ messages' = messages \o
                          [ i \in 1..Len(toolCalls) |-> ToolMessage(i, "cli") ]
                   /\ node' = NextAfterUpdate(messages', session_files, outcome)
                   /\ cli' = [ cli EXCEPT !.answer = reply,
                                          !.resumes = @ + 1,
                                          !.at = IF node' = "END" THEN "loop"
                                                 ELSE "invoking" ]
                   /\ run' = [ run EXCEPT !.approved = TRUE ]
              ELSE /\ outcome = "pending"
                   /\ cli' = [ cli EXCEPT !.answer = reply, !.at = "denied" ]
                   /\ UNCHANGED << messages, node, run >>
    /\ UNCHANGED << fs, session_files, lastMessage >>
    /\ UNCHANGED << registry, edges, chunks, clock, nextId, pc, filesToProcess,
                    idx, pendingChunks, pendingEdges, batchStart, runs, edits,
                    snap, hist, host, answer, instance, dbLog, tasks >>

NextCli ==
    \/ CliInvoke
    \/ IndexerStep
    \/ AgentStep
    \/ ResearcherStep
    \/ SafeActorStep
    \/ DangerousActorStep
    \/ GetState
    \/ AnswerQuestion
    \/ Confirm

CliSpec == InitCli /\ [][NextCli]_vars

(***************************************************************************)
(* Properties                                                              *)
(***************************************************************************)
Range(seq) == { seq[i] : i \in 1..Len(seq) }

\* C1: when a run starts right after a completed run and the tree has not
\* changed in between, it adds no row to code_chunks, adds no row to
\* dependency_graph and leaves the hash of every registry row as it was.
IdempotentRows ==
    hist.unchanged =>
        /\ chunks \subseteq snap.chunks
        /\ edges \subseteq snap.edges
        /\ \A p \in AllPaths :
              snap.registry[p] # NoRow =>
                  /\ registry[p] # NoRow
                  /\ registry[p].hash = snap.registry[p].hash

\* a second run on an unchanged tree has finished over a Store that holds
\* rows of all three relations
IdempotentRowsWitness ==
    /\ hist.unchanged
    /\ pc = "done"
    /\ runs >= 2
    /\ chunks # {}
    /\ edges # {}
    /\ \E p \in AllPaths : registry[p] # NoRow

\* C2 as stated: the second run on an unchanged tree refreshes last_indexed
\* of the registry rows of the files of the tree.
TimestampRefreshed ==
    (hist.unchanged /\ pc = "done") =>
        \A p \in AllPaths :
            (ExistsSync(fs, p) /\ IsCandidate(p) /\ snap.registry[p] # NoRow) =>
                /\ registry[p].last_indexed > snap.registry[p].last_indexed
                /\ registry[p].hash = snap.registry[p].hash

\* C2 amended: the second run on an unchanged tree writes no registry row:
\* last_indexed stays as it was, and so does the hash.
RegistryUntouched ==
    hist.unchanged => registry = snap.registry

\* the second run on an unchanged tree has finished and a registry row still
\* carries the time of an earlier run
RegistryUntouchedWitness ==
    /\ hist.unchanged
    /\ pc = "done"
    /\ \E p \in AllPaths :
          /\ ExistsSync(fs, p)
          /\ registry[p] # NoRow
          /\ registry[p].last_indexed < clock

\* C3: a file is selected iff it has no registry row or its stored hash differs
\* from the hash of its text; after one file of a fully indexed tree was
\* altered, the run selects and analyzes that file only, writes no other
\* registry row, and registers the file with the hash of its new text (unless
\* its analysis throws or the file is removed under the run).
ChangeDetection ==
    /\ runs > 0 =>
          \A p \in AllPaths :
              p \in Range(filesToProcess) <=>
                  /\ ExistsSync(snap.fs, p)
                  /\ IsCandidate(p)
                  /\ \/ snap.registry[p] = NoRow
                     \/ snap.registry[p].hash # ComputeHash(snap.fs[p])
    /\ hist.single # Null =>
          /\ filesToProcess = << hist.single >>
          /\ hist.analyzed \subseteq { hist.single }
          /\ hist.registered \subseteq { hist.single }
          /\ \A p \in AllPaths \ { hist.single } : registry[p] = snap.registry[p]
          /\ pc \in { "passB", "passC", "embedding", "done", "raised" } =>
                /\ hist.analyzed = { hist.single }
                /\ ( /\ hist.dirty = 0
                     /\ ExistsSync(fs, hist.single)
                     /\ ~AnalysisThrows(fs[hist.single]) ) =>
                      /\ hist.registered = { hist.single }
                      /\ registry[hist.single].hash = ComputeHash(fs[hist.single])
                      /\ registry[hist.single].hash # snap.registry[hist.single].hash

\* the run after one alteration has finished, it has registered the altered
\* file, and the tree holds other indexed files
ChangeDetectionWitness ==
    /\ hist.single # Null
    /\ pc = "done"
    /\ hist.registered = { hist.single }
    /\ \E p \in AllPaths \ { hist.single } :
          ExistsSync(fs, p) /\ registry[p] # NoRow

EdgeSourceRegistered ==
    [][ /\ \A e \in edges' \ edges :
              registry[e.source] # NoRow /\ registry'[e.source] # NoRow
        /\ (runs' = runs /\ hist'.graph = "saved") =>
              \A i \in 1..Len(pendingEdges') :
                  registry'[pendingEdges'[i].sourcePath] # NoRow
      ]_vars

\* the graph pass has committed edges of a file that Pass A analyzed and whose
\* updateFile skipped the registry write
EdgeSourceRegisteredWitness ==
    /\ hist.graph = "saved"
    /\ \E p \in hist.analyzed \ hist.registered :
          \E i \in 1..Len(pendingEdges) :
              /\ pendingEdges[i].sourcePath = p
              /\ EdgeRow(pendingEdges[i]) \in edges

\* the parent link of a row of code_chunks: the table has no parent column
\* and insertChunk.run is not given chunk.parentId
StoredParentId(row) == NoParent

\* C6 as stated: every row of type method has a parent_id that identifies a
\* row of type class_signature of the same file in code_chunks.
ParentChildLinkage ==
    \A r \in chunks :
        r.chunk_type = "method" =>
            \E q \in chunks :
                /\ q.id = StoredParentId(r)
                /\ q.chunk_type = "class_signature"
                /\ q.file_path = r.file_path

\* the parent link as the chunker set it (ProcessedChunk.parentId), followed
\* for the chunks of the run that are in code_chunks: the parent chunk is in
\* code_chunks too
ParentRowInStore ==
    \A i \in 1..Len(pendingChunks) :
        ( /\ pendingChunks[i].type = "method"
          /\ \E c \in chunks : c.id = pendingChunks[i].id ) =>
            \E q \in chunks :
                /\ q.id = pendingChunks[i].parentId
                /\ q.chunk_type = "class_signature"
                /\ q.file_path = pendingChunks[i].filePath

\* C7: when the transaction of the graph pass aborts, dependency_graph holds
\* no row the run added; when a batch of Pass C fails, code_chunks is left as
\* it was and holds no chunk of that batch.
AtomicPasses ==
    /\ hist.graph = "aborted" => edges \subseteq snap.edges
    /\ \A b \in hist.badBatches :
          \A i \in (b + 1)..MinOf(b + BATCH_SIZE, Len(pendingChunks)) :
              \A c \in chunks : c.id # pendingChunks[i].id

\* a batch that lost a vector has been discarded while another batch of the
\* same run is in code_chunks
AtomicPassesWitness ==
    /\ hist.badBatches # {}
    /\ hist.goodBatches # {}
    /\ \E b \in hist.badBatches : Len(Batch(pendingChunks, b)) > 1

BatchStarts(pending) ==
    { b \in 0..Len(pending) : b % BATCH_SIZE = 0 /\ b < Len(pending) }

\* C8: a failed batch does not stop Pass C and does not make indexProject
\* reject: the run raises only out of the graph pass, and once it is done
\* every batch has been requested and every batch that did not fail itself
\* is in code_chunks.
BatchFailureIsolation ==
    /\ pc = "raised" => hist.requests = 0 /\ hist.badBatches = {}
    /\ (pc = "done" /\ hist.requests > 0) =>
          /\ hist.goodBatches \cup hist.badBatches = BatchStarts(pendingChunks)
          /\ hist.requests = Cardinality(BatchStarts(pendingChunks))
          /\ \A b \in hist.goodBatches :
                \A i \in (b + 1)..MinOf(b + BATCH_SIZE, Len(pendingChunks)) :
                    \E c \in chunks :
                        /\ c.id = pendingChunks[i].id
                        /\ c.file_path = pendingChunks[i].filePath

\* the first batch of a run failed, and the run is done with a later batch
\* persisted
BatchFailureIsolationWitness ==
    /\ pc = "done"
    /\ 0 \in hist.badBatches
    /\ BATCH_SIZE \in hist.goodBatches

ParseFailureSkipsFile ==
    [][ /\ \A p \in hist'.failed :
              /\ registry'[p] = snap'.registry[p]
              /\ \A i \in 1..Len(pendingChunks') : pendingChunks'[i].filePath # p
              /\ \A i \in 1..Len(pendingEdges') : pendingEdges'[i].sourcePath # p
        /\ (hist'.failed # hist.failed /\ runs' = runs /\ pc = "passA") =>
              /\ pc' \in { "passA", "passB" }
              /\ idx' = idx + 1
        /\ pc' = "raised" => hist'.graph = "aborted"
        /\ pc' \in { "passB", "passC", "embedding", "done" } /\ hist'.graph # "none"
              => hist'.analyzed = Range(filesToProcess')
        /\ runs' = runs + 1 => hist.failed \subseteq Range(filesToProcess')
      ]_vars

\* the first file of a run failed in analysis, a later file of the run was
\* registered and the run is done
ParseFailureSkipsFileWitness ==
    /\ pc = "done"
    /\ Len(filesToProcess) > 1
    /\ filesToProcess[1] \in hist.failed
    /\ hist.registered # {}

\* the Store holds a chunk row of that file with that text
ChunkPersisted(k) ==
    \E row \in chunks : row.file_path = k.filePath /\ row.content = k.content

\* C11: when the transaction of Pass B or of a Pass C batch failed in a run,
\* the next run on the same tree brings the Store into sync: once it is done,
\* the edges and the chunks that failed to persist are in the Store.
StoreFailureReconciled ==
    (hist.unchanged /\ pc = "done") =>
        /\ \A e \in hist.prevLostEdges : e \in edges
        /\ \A k \in hist.prevLostChunks : k.write => ChunkPersisted(k)

EdgesOnlyGrow == snap.edges \subseteq edges

\* C13: dependency_graph is unique by (source, target, relation): an edge
\* equal to a stored row on all three is ignored without an error, and two
\* edges with the same source and target but different relations are both
\* stored; so after a saveGraph that did not throw, every edge it was given
\* is a row.
EdgeUniqueByTriple ==
    hist.graph = "saved" =>
        \A i \in 1..Len(pendingEdges) : EdgeRow(pendingEdges[i]) \in edges

\* rows of dependency_graph whose column holds one of the given paths
PairsOf(direction, paths) ==
    IF direction = "inbound"
    THEN { [ other |-> e.source, relation |-> e.relation ] :
             e \in { x \in edges : x.target \in paths } }
    ELSE { [ other |-> e.target, relation |-> e.relation ] :
             e \in { x \in edges : x.source \in paths } }

\* C19 (as stated): query_dependency_graph(path, outbound) returns exactly
\* the (target, relation) pairs of the rows whose source equals path, and
\* (path, inbound) exactly the (source, relation) pairs of the rows whose
\* target equals path; an empty result is a normal answer.
QueryReturnsExactEdges ==
    answer.op = "query_dependency_graph" =>
        /\ answer.result.rows = PairsOf(answer.direction, { answer.filePath })
        /\ answer.result.rows = {} <=> answer.result.kind = "info"

\* C19 (amended): the rows returned are those whose source (outbound) or
\* target (inbound) equals the path as passed or the path with the
\* separator of the host replaced by '/'; an empty result is a normal answer.
QueryReturnsNormalizedEdges ==
    answer.op = "query_dependency_graph" =>
        /\ answer.result.rows =
              PairsOf(answer.direction,
                      { answer.filePath, NormalizePath(host, answer.filePath) })
        /\ answer.result.rows = {} <=> answer.result.kind = "info"
        /\ answer.result.kind \in { "info", "graph" }

QueryReturnsNormalizedEdgesWitness ==
    /\ answer.op = "query_dependency_graph"
    /\ answer.filePath # NormalizePath(host, answer.filePath)
    /\ answer.result.kind = "graph"
    /\ answer.direction = "inbound"
    /\ PairsOf("inbound", { answer.filePath }) = {}

\* C20: for a path with a registry row, query_dependency_graph(outbound),
\* getDependencies and getFileSkeleton return the same result for the
\* native-separator form and for the forward-slash form of the path.
PathFormRoundTrip ==
    \A n \in FileNames :
        registry[NativePath(host, n)] # NoRow =>
            /\ QueryDependencyGraph(edges, host, NativePath(host, n), "outbound")
                  = QueryDependencyGraph(edges, host, ForwardPath(n), "outbound")
            /\ GetDependencies(edges, host, NativePath(host, n))
                  = GetDependencies(edges, host, ForwardPath(n))
            /\ GetFileSkeleton(registry, host, NativePath(host, n))
                  = GetFileSkeleton(registry, host, ForwardPath(n))

\* the similarity of a stored row to the query of the last call
ScoreOfRow(row) == CosineSimilarity(answer.queryVector, row.vector_json)
\* the stored row a hit was made from
RowOfHit(hit) == CHOOSE r \in chunks : r.id = hit.chunk.id

\* C15: query(text, limit) returns exactly min(limit, number of stored
\* chunks) hits, in non-increasing score order; no omitted chunk has a higher
\* score than a returned one; hits of equal score are in insertion order.
QueryTopK ==
    (answer.op = "query" /\ ~answer.result.threw) =>
        LET hits == answer.result.hits
            returned == { RowOfHit(hits[i]) : i \in 1..Len(hits) }
        IN  /\ Len(hits) = MinOf(answer.limit, Cardinality(chunks))
            /\ Cardinality(returned) = Len(hits)
            /\ \A i \in 1..Len(hits) : hits[i].score = ScoreOfRow(RowOfHit(hits[i]))
            /\ \A i, j \in 1..Len(hits) :
                  i < j => /\ hits[i].score >= hits[j].score
                           /\ hits[i].score = hits[j].score =>
                                 RowOfHit(hits[i]).rowid < RowOfHit(hits[j]).rowid
            /\ \A row \in chunks \ returned : \A i \in 1..Len(hits) :
                  ScoreOfRow(row) <= hits[i].score

QueryTopKWitness ==
    /\ answer.op = "query"
    /\ ~answer.result.threw
    /\ Len(answer.result.hits) = 2
    /\ Cardinality(chunks) > 2
    /\ answer.result.hits[1].score = answer.result.hits[2].score
    /\ \E row \in chunks : /\ ScoreOfRow(row) < answer.result.hits[2].score
                            /\ row.rowid < RowOfHit(answer.result.hits[1]).rowid

\* the hits the report of the last call is made of
ContextHits == Query(chunks, answer.queryVector, ContextLimit).hits
HitsOfFile(path) ==
    { i \in 1..Len(ContextHits) : ContextHits[i].chunk.filePath = path }

\* C16: the report groups the hits of query(text, 4) by file path; the
\* relevance of a file is the highest similarity among its hits, and the
\* files appear in descending order of relevance.
ReportGroupsByFile ==
    (answer.op = "getContextForLLM" /\ ~answer.result.threw) =>
        LET sections == answer.result.sections
        IN  /\ { sections[i].filePath : i \in 1..Len(sections) }
                  = { ContextHits[i].chunk.filePath : i \in 1..Len(ContextHits) }
            /\ \A i, j \in 1..Len(sections) :
                  i # j => sections[i].filePath # sections[j].filePath
            /\ \A i \in 1..Len(sections) :
                  /\ Range(sections[i].snippets)
                        = { ContextHits[h].chunk.id : h \in HitsOfFile(sections[i].filePath) }
                  /\ \A h \in HitsOfFile(sections[i].filePath) :
                        ContextHits[h].score <= sections[i].relevance
                  /\ \E h \in HitsOfFile(sections[i].filePath) :
                        ContextHits[h].score = sections[i].relevance
                  /\ sections[i].relevancePct = ToFixed1(sections[i].relevance)
            /\ \A i, j \in 1..Len(sections) :
                  i < j => sections[i].relevance >= sections[j].relevance

ReportGroupsByFileWitness ==
    /\ answer.op = "getContextForLLM"
    /\ ~answer.result.threw
    /\ Len(answer.result.sections) = 2
    /\ answer.result.sections[1].relevance > answer.result.sections[2].relevance
    /\ \E i \in 1..2 : \E h \in HitsOfFile(answer.result.sections[i].filePath) :
          ContextHits[h].score < answer.result.sections[i].relevance

\* the number of outbound imports of a file
ImportCount(path) == Cardinality({ e \in edges : e.source = path })

\* C17: in the report of a file with k outbound imports exactly min(k, 5)
\* import lines are listed, the first five in stored order, and a summary
\* line with N = k - 5 is present iff k > 5.
ImportsTruncated ==
    (answer.op = "getContextForLLM" /\ ~answer.result.threw) =>
        \A i \in 1..Len(answer.result.sections) :
            LET section == answer.result.sections[i]
                k == ImportCount(section.filePath)
                stored == GetDependencies(edges, host, section.filePath)
            IN  /\ Len(stored) = k
                /\ Len(section.importLines) = MinOf(k, 5)
                /\ \A n \in 1..Len(section.importLines) :
                      section.importLines[n] = stored[n]
                /\ section.moreLines = IF k > 5 THEN << k - 5 >> ELSE << >>

ImportsTruncatedWitness ==
    /\ answer.op = "getContextForLLM"
    /\ ~answer.result.threw
    /\ \E i \in 1..Len(answer.result.sections) :
          /\ ImportCount(answer.result.sections[i].filePath) = 6
          /\ answer.result.sections[i].moreLines = << 1 >>
    /\ \E i \in 1..Len(answer.result.sections) :
          /\ ImportCount(answer.result.sections[i].filePath) = 1
          /\ answer.result.sections[i].moreLines = << >>

\* the candidates of a relative specifier in priority order, and whether the
\* candidate at position i can be taken
CandidatesOf(m) ==
    << SrcDir \o (CHOOSE r \in SpecifierRests : m = "." \o r),
       SrcDir \o (CHOOSE r \in SpecifierRests : m = "." \o r) \o ".ts",
       SrcDir \o (CHOOSE r \in SpecifierRests : m = "." \o r) \o "/index.ts" >>
Usable(m, i) ==
    /\ CandidatesOf(m)[i] \in DOMAIN fs
    /\ fs[CandidatesOf(m)[i]] # Absent
    /\ i = 1 => fs[CandidatesOf(m)[i]] # Dir
\* the imports that yield an edge: relative, with a candidate to take
Yielding(imports) ==
    SelectSeq(imports, LAMBDA m : /\ m \in { "." \o r : r \in SpecifierRests }
                                  /\ \E i \in 1..3 : Usable(m, i))

\* C18: for each import of a file an edge (source = current path, relation =
\* import) is emitted iff the specifier starts with '.' and resolves; the
\* target is the first that exists of: the specifier as a regular file,
\* <specifier>.ts, <specifier>/index.ts; non-relative specifiers and
\* specifiers that do not resolve give no edge.
ImportResolution ==
    answer.op = "extractDependencies" =>
        LET yielding == Yielding(answer.imports)
        IN  /\ Len(answer.dependencies) = Len(yielding)
            /\ \A n \in 1..Len(answer.dependencies) :
                  LET edge == answer.dependencies[n]
                  IN  /\ edge.sourcePath = filesToProcess[idx]
                      /\ edge.relation = "import"
                      /\ \E i \in 1..3 :
                            /\ edge.targetPath = CandidatesOf(yielding[n])[i]
                            /\ Usable(yielding[n], i)
                            /\ \A j \in 1..(i - 1) : ~Usable(yielding[n], j)

ImportResolutionWitness ==
    /\ answer.op = "extractDependencies"
    /\ answer.imports = << "lodash", "./x" >>
    /\ fs[PathX] = Dir
    /\ fs[PathXTs] # Absent
    /\ fs[PathXIndex] # Absent
    /\ Len(answer.dependencies) = 1
    /\ answer.dependencies[1].targetPath = PathXTs

\* the path is written with backslashes
HasBackslash(p) == \E n \in FileNames : p = SrcDir \o "\\" \o n

\* C21: every path recorded in the Store (registry path, edge source, edge
\* target, chunk file_path) is written with forward slashes, whatever the
\* separator of the host is.
StoredPathsForward ==
    /\ \A q \in DOMAIN registry : registry[q] # NoRow => ~HasBackslash(q)
    /\ \A e \in edges : ~HasBackslash(e.source) /\ ~HasBackslash(e.target)
    /\ \A c \in chunks : ~HasBackslash(c.file_path)

\* the path is the root or lies below it
UnderRoot(target) ==
    target = RootDir \/ \E rest \in { "src/a.ts", "src/n.ts" } :
                           target = RootDir \o "/" \o rest
FileOps == { "safe_write_file", "safe_read_file", "delete_file",
             "analyze_code_structure" }

\* C22: a call of safe_write_file, safe_read_file, delete_file or
\* analyze_code_structure with a path that resolves outside the project root
\* is refused and reads, writes, backs up, deletes and re-indexes nothing; a
\* sibling directory whose name starts with the name of the root is outside.
RootContainment ==
    (answer.op \in FileOps /\ ~UnderRoot(answer.target)) =>
        /\ answer.steps = << >>
        /\ answer.kind \in { "denied", "notFound" }

\* C28: when safe_write_file overwrites an existing file, a backup holding
\* the previous content has been written under .agent/backups before the
\* content is changed; when the backup fails, the file is not modified.
BackupBeforeWrite ==
    (answer.op = "safe_write_file" /\ answer.previous # Absent) =>
        LET steps == answer.steps
        IN  /\ (\E j \in 1..Len(steps) : steps[j] = "write") =>
                  /\ \E i, j \in 1..Len(steps) :
                        i < j /\ steps[i] = "backup" /\ steps[j] = "write"
                  /\ \E q \in DOMAIN fs :
                        /\ q \notin { FileIn, FileNew, FileSibling, FileFar }
                        /\ \E name \in { "a.ts", "n.ts" } :
                              q = BackupDir \o "/" \o Numerals[answer.now]
                                    \o "_" \o name \o ".bak"
                        /\ fs[q] = answer.previous
            /\ (\E i \in 1..Len(steps) : steps[i] = "backupFailed") =>
                  /\ fs[answer.target] = answer.previous
                  /\ \A j \in 1..Len(steps) : steps[j] # "write"

BackupBeforeWriteWitness ==
    /\ answer.op = "safe_write_file"
    /\ answer.kind = "modified"
    /\ answer.previous = "v1"
    /\ fs[answer.target] = "v2"
    /\ fs[BackupPath(answer.now, Basename(answer.target))] = "v1"

\* C23: for a path ending in one of the five atomic suffixes, an analysis
\* that returns yields exactly one chunk, of type file, whose content is the
\* full text of the file and whose line range runs from line 1 to the last
\* line, whatever the text holds.
AtomicFileOneChunk ==
    ( /\ answer.op = "analyze"
      /\ ~answer.threw
      /\ \E suffix \in AtomicSuffixes, stem \in Stems :
             answer.filePath = stem \o suffix ) =>
        /\ Len(answer.chunks) = 1
        /\ answer.chunks[1].type = "file"
        /\ answer.chunks[1].content = FullText(answer.content)
        /\ answer.chunks[1].metadata.startLine = 1
        /\ answer.chunks[1].metadata.endLine = LinesOf(answer.content)

\* a .type.ts file that declares several classes came back as one chunk
AtomicFileOneChunkWitness ==
    /\ answer.op = "analyze"
    /\ answer.filePath = "src/c.type.ts"
    /\ Len(ClassesOf(answer.content)) > 1
    /\ Len(answer.chunks) = 1
    /\ answer.chunks[1].metadata.endLine > 1

SumTo(counts, n) == ClassOffset(counts, n + 1) - n

\* C24: for a logic file the chunks are, class by class, one class_signature
\* chunk followed by one method chunk per method of the class; every method
\* chunk carries the id of the class_signature chunk of its own class as
\* parentId, and k classes of m1..mk methods give k + m1 + ... + mk chunks.
ParentChildSplit ==
    ( /\ answer.op = "analyze"
      /\ ~answer.threw
      /\ answer.filePath \in { PathA, PathB } ) =>
        LET cs == answer.chunks
            classes == ClassesOf(answer.content)
            Signatures == { p \in 1..Len(cs) : cs[p].type = "class_signature" }
            Methods == { p \in 1..Len(cs) : cs[p].type = "method" }
            \* position of the signature a chunk stands under
            Owner(p) == CHOOSE q \in Signatures :
                            q <= p /\ \A r \in Signatures : r <= p => r <= q
        IN  /\ Signatures \cup Methods = 1..Len(cs)
            /\ Cardinality(Signatures) = Len(classes)
            /\ Len(cs) = Len(classes) + SumTo(classes, Len(classes))
            /\ Len(cs) > 0 => 1 \in Signatures
            /\ \A p, q \in 1..Len(cs) : cs[p].id = cs[q].id => p = q
            /\ \A q \in Signatures :
                  LET k == Cardinality({ r \in Signatures : r <= q })
                  IN  /\ cs[q].metadata.className = ClassName(k)
                      /\ Cardinality({ p \in Methods : cs[p].parentId = cs[q].id })
                            = classes[k]
            /\ \A p \in Methods :
                  /\ cs[p].parentId = cs[Owner(p)].id
                  /\ cs[p].metadata.className = cs[Owner(p)].metadata.className

\* a file of three classes, one of them without methods, has been split
ParentChildSplitWitness ==
    /\ answer.op = "analyze"
    /\ answer.filePath = PathA
    /\ answer.content = "v3"
    /\ Len(answer.chunks) = 6
    /\ answer.chunks[6].parentId = answer.chunks[5].id

\* C25: over the getInstance calls of a process at most one connection is
\* created, every call that returns a connection returns that one, and once
\* a call has returned a connection the schema has been initialized exactly
\* once.
StoreSingleton ==
    LET Returns == { i \in 1..Len(dbLog.returned) :
                        "conn" \in DOMAIN dbLog.returned[i] }
    IN  /\ dbLog.opened <= 1
        /\ dbLog.schemaRuns <= 1
        /\ \A i \in Returns : dbLog.returned[i] = instance
        /\ Returns # {} => dbLog.schemaRuns = 1

\* the transactions begun and not yet ended after the first n events
RECURSIVE OpenTransactions(_, _)
OpenTransactions(events, n) ==
    IF n = 0 THEN 0
    ELSE OpenTransactions(events, n - 1)
           + (IF events[n] = "begin" THEN 1 ELSE 0)
           - (IF events[n] \in { "commit", "rollback" } THEN 1 ELSE 0)

\* the embedding calls issued and not yet settled after the first n events
RECURSIVE CallsInFlight(_, _)
CallsInFlight(events, n) ==
    IF n = 0 THEN 0
    ELSE CallsInFlight(events, n - 1)
           + (IF events[n] = "embedIssued" THEN 1 ELSE 0)
           - (IF events[n] \in { "embedReturned", "embedThrew" } THEN 1 ELSE 0)

\* C26: in Pass C no transaction is open while an embedding call is in
\* flight: the call of a batch has returned before the transaction of the
\* batch begins, and the transaction has ended before the next call is issued.
NoTransactionAcrossEmbedding ==
    LET events == hist.events
    IN  /\ \A n \in 0..Len(events) :
              CallsInFlight(events, n) > 0 => OpenTransactions(events, n) = 0
        /\ \A n \in 1..Len(events) :
              /\ events[n] = "begin" =>
                    n > 1 /\ events[n - 1] = "embedReturned"
              /\ events[n] = "embedIssued" => OpenTransactions(events, n - 1) = 0
        /\ pc = "embedding" =>
              /\ CallsInFlight(events, Len(events)) = 1
              /\ OpenTransactions(events, Len(events)) = 0

\* the transaction of one batch has been committed and the embedding call of
\* the next batch is in flight
NoTransactionAcrossEmbeddingWitness ==
    /\ pc = "embedding"
    /\ Len(hist.events) >= 5
    /\ hist.events[Len(hist.events) - 1] = "commit"
    /\ hist.events[Len(hist.events)] = "embedIssued"

\* sum of the squares of the components
RECURSIVE SquaredNorm(_, _)
SquaredNorm(vec, n) ==
    IF n = 0 THEN 0 ELSE SquaredNorm(vec, n - 1) + vec[n] * vec[n]

\* C27: cosineSimilarity raises for two vectors of unequal length and, for
\* vectors of equal length, returns 0 when one of them has zero norm; query
\* raises when a stored vector differs in length from the query vector.
CosineErrors ==
    /\ answer.op = "cosineSimilarity" =>
          LET vecA == answer.vecA
              vecB == answer.vecB
          IN  /\ Len(vecA) # Len(vecB) => answer.result.threw
              /\ ( /\ Len(vecA) = Len(vecB)
                   /\ \/ SquaredNorm(vecA, Len(vecA)) = 0
                      \/ SquaredNorm(vecB, Len(vecB)) = 0 ) =>
                    /\ ~answer.result.threw
                    /\ answer.result.value = 0
    /\ answer.op = "query" =>
          ( (\E row \in chunks : Len(row.vector_json) # Len(answer.queryVector))
              => answer.result.threw )

\* a query met a stored vector shorter than its own, behind a row of the
\* right length, and raised
CosineErrorsWitness ==
    /\ answer.op = "query"
    /\ answer.result.threw
    /\ Len(answer.queryVector) = 2
    /\ \E r1, r2 \in chunks :
          /\ r1.rowid < r2.rowid
          /\ Len(r1.vector_json) = 2
          /\ Len(r2.vector_json) = 1

\* C29: an execute_command call, an ask_human call, or a delete_file call
\* that removes a file which is not in session_files (and which no earlier
\* call of the same message created) is executed only in a run that passed
\* the breakpoint before dangerous_actor, whatever the position of the call
\* in the message of the agent.
HumanInTheLoop ==
    \A i \in 1..Len(run.executed) :
        LET e == run.executed[i]
        IN  ( \/ e.name \in { "execute_command", "ask_human" }
              \/ e.name = "delete_file" /\ ~e.inSession /\ ~e.fresh /\ e.existed )
            => e.approved

ToolNodes == { "researcher", "safe_actor", "dangerous_actor" }

\* C30: in every run the indexer node is executed before the first agent
\* step; a tool-executing node is followed by the agent node; END is entered
\* from the agent node only, and it is entered when the last message of the
\* agent holds no tool call.
GraphWorkflow ==
    LET path == run.path
    IN  /\ Len(path) > 0 => path[1] = "indexer"
        /\ \A i \in 1..Len(path) :
              /\ path[i] = "agent" => \E j \in 1..(i - 1) : path[j] = "indexer"
              /\ path[i] \in ToolNodes =>
                    IF i < Len(path) THEN path[i + 1] = "agent" ELSE node = "agent"
        /\ node = "END" => Len(path) > 0 /\ path[Len(path)] = "agent"
        /\ ( /\ Len(path) > 0
             /\ path[Len(path)] = "agent"
             /\ Len(lastMessage) = 0 ) => node = "END"

\* a run went through safe_actor and, after approval, through
\* dangerous_actor, and ended on a message without tool calls
GraphWorkflowWitness ==
    /\ node = "END"
    /\ run.path = << "indexer", "agent", "safe_actor", "agent", "dangerous_actor",
                     "agent" >>
    /\ session_files = { FileCreated }
    /\ fs[FileLegacy] = Absent

Finished(t) == t <= Len(tasks) /\ tasks[t].pc \in { "done", "raised" }

\* all runs have ended, no embedding batch of any run failed and no other
\* process rewrote a file under a run
QuietAndClean ==
    /\ edits = 0
    /\ \A t \in 1..Len(tasks) : Finished(t) /\ tasks[t].failedBatches = 0

\* the chunks that the analysis of a text gives are rows of code_chunks
ChunksOfTextStored(filePath, content) ==
    LET produced == Analyze(fs, filePath, content, 1).chunks
    IN  \A i \in 1..Len(produced) :
            \E row \in chunks : /\ row.file_path = filePath
                                /\ row.chunk_type = produced[i].type
                                /\ row.content = produced[i].content

\* C31: the run that a successful safe_write_file starts ends at some time,
\* and once the runs have ended without a failed embedding batch, the registry
\* hash of the written file is the hash of the written text and the chunks of
\* that text are in the Store (as long as the file still holds that text).
ReindexAfterWrite ==
    \A t \in 1..MaxTasks :
        /\ [](t <= Len(tasks) => <>Finished(t))
        /\ []( ( /\ t <= Len(tasks)
                 /\ QuietAndClean
                 /\ fs[tasks[t].wrote.filePath] = tasks[t].wrote.content ) =>
                   /\ registry[tasks[t].wrote.filePath] # NoRow
                   /\ registry[tasks[t].wrote.filePath].hash
                         = ComputeHash(tasks[t].wrote.content)
                   /\ ChunksOfTextStored(tasks[t].wrote.filePath,
                                         tasks[t].wrote.content) )

\* C32: two runs that are under way at the same time have analyzed no
\* version of a file in common, and the Store never holds two rows for the
\* same chunk of the same version of a file.
OverlapNoDuplicates ==
    /\ \A t1, t2 \in 1..Len(tasks) :
          ( /\ t1 # t2
            /\ edits = 0
            /\ ~Finished(t1)
            /\ ~Finished(t2) ) => tasks[t1].analyzed \cap tasks[t2].analyzed = {}
    /\ edits = 0 =>
          \A r1, r2 \in chunks :
              ( /\ r1.file_path = r2.file_path
                /\ r1.chunk_type = r2.chunk_type
                /\ r1.content = r2.content ) => r1.id = r2.id

\* C33: once a file has been re-indexed with all batches persisted, every
\* row of code_chunks with its path comes from the text the file now holds.
NoStaleChunks ==
    \A p \in WritePaths :
        ( /\ QuietAndClean
          /\ \A t \in 1..Len(tasks) : tasks[t].pc = "done"
          /\ registry[p] # NoRow
          /\ registry[p].hash = ComputeHash(fs[p]) ) =>
            \A row \in chunks : row.file_path = p => row.content[1] = fs[p]

\* C34: the hash of a registry row is the hash of the text from which the
\* skeleton of that row was derived, also when another writer rewrites the
\* file between the read of processSingleFile and the read of updateFile.
HashContentConsistent ==
    \A p \in WritePaths :
        registry[p] # NoRow =>
            \E content \in WriteContents :
                /\ registry[p].hash = ComputeHash(content)
                /\ registry[p].skeleton_signature
                      = Analyze(fs, p, content, 1).skeleton

\* the ToolMessages of the thread that answer the tool call with an id
AnswersTo(id) ==
    { j \in 1..Len(messages) :
        messages[j].type = "tool" /\ messages[j].tool_call_id = id }

\* C35: when the agent node is about to run after a message of the model
\* with tool calls, every tool call of that message has exactly one
\* ToolMessage in the state of the thread.
ToolCallsPaired ==
    ( /\ node = "agent"
      /\ Len(messages) > 0
      /\ messages[1].type = "ai" ) =>
        \A id \in 1..Len(messages[1].tool_calls) : Cardinality(AnswersTo(id)) = 1

\* the answers the prompt "(y/n)" takes as an approval
Affirmative == { "y", "yes", "Yes" }

\* C36: at the prompt of the breakpoint, an answer other than y or yes makes
\* the CLI return with no pending tool call executed and the graph still
\* interrupted, and nothing happens afterwards; an approval resumes the
\* graph; the loop is left by break only when the graph has no next node.
DeniedExecutesNothing ==
    /\ [][ cli.at = "confirm" =>
             IF cli'.answer \in Affirmative
             THEN /\ cli'.resumes = cli.resumes + 1
                  /\ cli'.at \in { "invoking", "loop" }
             ELSE /\ cli'.at = "denied"
                  /\ UNCHANGED << fs, node, messages, session_files, run >> ]_vars
    /\ []( cli.at = "denied" => /\ cli.answer \notin Affirmative
                                /\ node \in InterruptBefore
                                /\ run.executed = << >>
                                /\ LastToolCalls(messages) # << >> )
    /\ [][ cli.at # "denied" ]_vars
    /\ []( cli.at = "ended" => node = "END" )

DeniedExecutesNothingWitness ==
    /\ cli.at = "denied"
    /\ cli.answer = "n"
    /\ LastToolCalls(messages) = << ToolCall("delete_file", FileLegacy),
                                    ToolCall("execute_command", Null) >>
    /\ fs[FileLegacy] # Absent
    /\ run.path = << "indexer", "agent", "safe_actor", "agent" >>

\* C37: session_files only grows, holds only paths for which a
\* safe_write_file call of the thread reported "created", and safe_actor
\* executes a delete_file only for a path of session_files (or one that an
\* earlier call of the same message created).
SessionFilesInvariant ==
    /\ [][ session_files \subseteq session_files' ]_vars
    /\ []( session_files \subseteq cli.created )
    /\ []( \A i \in 1..Len(run.executed) :
              LET e == run.executed[i]
              IN  ( /\ e.name = "delete_file"
                    /\ e.node = "safe_actor"
                    /\ ~e.fresh ) => e.inSession )
====
